---- MODULE Spec2Model ----
(***************************************************************************)
(* A state-machine model of the PFM-007 backend ledger                     *)
(* (src/apps/backend/app): accounts and their stored balances, the         *)
(* transaction table with transfer groups and linked-transaction pointers, *)
(* credit-card statements, check-card auto-mirrors, recurring rules with   *)
(* their skip records, and the bulk ingestion pipeline.                    *)
(*                                                                         *)
(* Amounts are integers (minor units).  Dates are <<year, month, day>>.    *)
(* A missing id is Null (0); ids start at 1.  One user owns everything.    *)
(***************************************************************************)
EXTENDS Integers, Sequences, FiniteSets, TLC

\* ------------------------------------------------------------------ bounds
\* Largest transaction id the model allocates (ids are max(id)+1, so a
\* run of creations and deletions would otherwise grow without end).
MaxTxnId == 3
\* Largest magnitude of an input amount.
MaxAmount == 2
\* Largest statement id the model allocates.
MaxStmtId == 3
MaxBalance == 3

Null == 0
NoDate == <<0, 0, 0>>
NoExt == <<"", 0, NoDate>>

\* ---------------------------------------------------------------- helpers
Max(S) == CHOOSE x \in S : \A y \in S : y <= x
Abs(x) == IF x < 0 THEN -x ELSE x
NextId(f) == IF DOMAIN f = {} THEN 1 ELSE Max(DOMAIN f) + 1
Restrict(f, S) == [x \in S |-> f[x]]
Extend(f, k, v) == [x \in (DOMAIN f) \cup {k} |-> IF x = k THEN v ELSE f[x]]

\* --------------------------------------------------------------- calendar
IsLeap(y) == (y % 4 = 0 /\ y % 100 # 0) \/ y % 400 = 0
DaysInMonth(y, m) ==
    IF m = 2 THEN (IF IsLeap(y) THEN 29 ELSE 28)
    ELSE IF m \in {4, 6, 9, 11} THEN 30 ELSE 31
DateLT(a, b) ==
    \/ a[1] < b[1]
    \/ a[1] = b[1] /\ a[2] < b[2]
    \/ a[1] = b[1] /\ a[2] = b[2] /\ a[3] < b[3]
DateLE(a, b) == a = b \/ DateLT(a, b)
NextDay(d) ==
    IF d[3] < DaysInMonth(d[1], d[2]) THEN <<d[1], d[2], d[3] + 1>>
    ELSE IF d[2] < 12 THEN <<d[1], d[2] + 1, 1>>
    ELSE <<d[1] + 1, 1, 1>>
RECURSIVE AddDays(_, _)
AddDays(d, n) == IF n = 0 THEN d ELSE AddDays(NextDay(d), n - 1)
RECURSIVE DaysBeforeMonth(_, _)
DaysBeforeMonth(y, m) ==
    IF m = 1 THEN 0 ELSE DaysBeforeMonth(y, m - 1) + DaysInMonth(y, m - 1)
RECURSIVE DaysBeforeYear(_)
DaysBeforeYear(y) ==
    IF y <= 2024 THEN 0
    ELSE DaysBeforeYear(y - 1) + (IF IsLeap(y - 1) THEN 366 ELSE 365)
\* date.weekday(): 0 = Monday.  2024-01-01 was a Monday.
Weekday(d) == (DaysBeforeYear(d[1]) + DaysBeforeMonth(d[1], d[2]) + d[3] - 1) % 7

\* Variants: a month shift that stays put, a day that is not clamped.
AddMonthNone(y, m, delta) == <<y, m>>
ClampDayNone(y, m, day) == <<y, m, day>>
\* routers.py _add_month / _clamp_day
_add_month(y, m, delta) ==
    LET total == y * 12 + (m - 1) + delta
    IN  <<total \div 12, (total % 12) + 1>>
_clamp_day(y, m, day) ==
    LET last_day == DaysInMonth(y, m)
    IN  <<y, m, IF day > last_day THEN last_day ELSE day>>

\* ------------------------------------------------- models.py: Transaction
\* The keyword arguments every construction may carry, all absent.
NoData ==
    [type |-> "EXPENSE", account_id |-> Null, counter_account_id |-> Null,
     has_from |-> FALSE, from_account_id |-> Null,
     has_to |-> FALSE, to_account_id |-> Null,
     card_id |-> Null, amount |-> 0, group_id |-> Null,
     linked_transaction_id |-> Null, billing_cycle_id |-> Null,
     status |-> "CLEARED", is_balance_neutral |-> FALSE,
     is_auto_transfer_match |-> FALSE, exclude_from_reports |-> FALSE,
     is_card_charge |-> FALSE, external_id |-> NoExt,
     occurred_at |-> NoDate, occurred_time |-> Null, memo |-> 0,
     payee_id |-> Null]

\* Transaction.__init__: the legacy account_id / counter_account_id keys are
\* mapped to the directional columns only when those are not given.
Transaction(d) ==
    LET legacy == d.account_id # Null /\ ~d.has_from /\ ~d.has_to
        hasFrom1 == d.has_from \/ (legacy /\ d.type # "INCOME")
        from1 == IF d.has_from THEN d.from_account_id
                 ELSE IF legacy /\ d.type # "INCOME" THEN d.account_id ELSE Null
        hasTo1 == d.has_to \/ (legacy /\ d.type = "INCOME")
        to1 == IF d.has_to THEN d.to_account_id
               ELSE IF legacy /\ d.type = "INCOME" THEN d.account_id ELSE Null
        from2 == IF d.counter_account_id # Null /\ d.type = "INCOME" /\ ~hasFrom1
                 THEN d.counter_account_id ELSE from1
        to2 == IF d.counter_account_id # Null /\ d.type # "INCOME" /\ ~hasTo1
               THEN d.counter_account_id ELSE to1
    IN  [id |-> Null, type |-> d.type,
         from_account_id |-> from2, to_account_id |-> to2,
         card_account_id |-> d.card_id, amount |-> d.amount,
         group_id |-> d.group_id,
         linked_transaction_id |-> d.linked_transaction_id,
         billing_cycle_id |-> d.billing_cycle_id, status |-> d.status,
         is_balance_neutral |-> d.is_balance_neutral,
         is_auto_transfer_match |-> d.is_auto_transfer_match,
         exclude_from_reports |-> d.exclude_from_reports,
         is_card_charge |-> d.is_card_charge,
         external_id |-> d.external_id, occurred_at |-> d.occurred_at,
         occurred_time |-> d.occurred_time, memo |-> d.memo,
         payee_id |-> d.payee_id]

\* Hybrid properties account_id / counter_account_id and their setters.
AccountIdOf(t) == IF t.type = "INCOME" THEN t.to_account_id ELSE t.from_account_id
CounterAccountIdOf(t) ==
    IF t.type = "INCOME" THEN t.from_account_id ELSE t.to_account_id
SetAccountId(t, v) ==
    IF t.type = "INCOME" THEN [t EXCEPT !.to_account_id = v]
    ELSE [t EXCEPT !.from_account_id = v]
SetCounterAccountId(t, v) ==
    IF t.type = "INCOME" THEN [t EXCEPT !.from_account_id = v]
    ELSE [t EXCEPT !.to_account_id = v]

\* Transaction.__table_args__: the CHECK constraints of one row.
RowConstraintsOk(t) ==
    /\ t.from_account_id # Null \/ t.to_account_id # Null
    /\ \/ t.type = "TRANSFER" /\ t.from_account_id # Null /\ t.to_account_id # Null
          /\ t.from_account_id # t.to_account_id
       \/ t.type = "EXPENSE" /\ t.from_account_id # Null
       \/ t.type = "INCOME" /\ t.to_account_id # Null
       \/ t.type = "SETTLEMENT" /\ t.from_account_id # Null /\ t.to_account_id # Null
    /\ ~t.is_card_charge \/ t.card_account_id # Null
    /\ t.type # "SETTLEMENT" \/ t.card_account_id # Null
    /\ t.linked_transaction_id = Null \/ t.linked_transaction_id # t.id

\* The table's constraints: row CHECKs, the unique external id, the unique
\* linked pointer, and the foreign keys to transfer groups and statements.
TableConstraintsOk(s) ==
    /\ \A i \in DOMAIN s.txns : RowConstraintsOk(s.txns[i])
    /\ \A i, j \in DOMAIN s.txns :
          i # j =>
            /\ s.txns[i].external_id = NoExt
               \/ s.txns[i].external_id # s.txns[j].external_id
            /\ s.txns[i].linked_transaction_id = Null
               \/ s.txns[i].linked_transaction_id # s.txns[j].linked_transaction_id
    /\ \A i \in DOMAIN s.txns :
          /\ s.txns[i].group_id = Null \/ s.txns[i].group_id \in s.groups
          /\ s.txns[i].linked_transaction_id = Null
             \/ s.txns[i].linked_transaction_id \in DOMAIN s.txns
          /\ s.txns[i].billing_cycle_id = Null
             \/ s.txns[i].billing_cycle_id \in DOMAIN s.stmts

\* Session.add + flush: the row gets the next free id.
AddTxn(s, t) ==
    LET i == NextId(s.txns)
    IN  [s EXCEPT !.txns = Extend(s.txns, i, [t EXCEPT !.id = i])]

\* Session.delete + flush.  The row object stays readable in memory (gone);
\* the database nulls the pointers that referenced it (ON DELETE SET NULL).
DeleteTxn(s, i) ==
    IF i \notin DOMAIN s.txns THEN s
    ELSE
    LET rest == Restrict(s.txns, DOMAIN s.txns \ {i})
    IN  [s EXCEPT
           !.gone = Extend(s.gone, i, s.txns[i]),
           !.txns = [j \in DOMAIN rest |->
                       IF rest[j].linked_transaction_id = i
                       THEN [rest[j] EXCEPT !.linked_transaction_id = Null]
                       ELSE rest[j]],
           !.stmts = [k \in DOMAIN s.stmts |->
                       IF s.stmts[k].settlement_transaction_id = i
                       THEN [s.stmts[k] EXCEPT !.settlement_transaction_id = Null]
                       ELSE s.stmts[k]]]

\* The object a handler holds for id i: the row, or the object it deleted.
Obj(s, i) == IF i \in DOMAIN s.txns THEN s.txns[i] ELSE s.gone[i]
SetObj(s, i, t) ==
    IF i \in DOMAIN s.txns THEN [s EXCEPT !.txns[i] = t]
    ELSE [s EXCEPT !.gone[i] = t]

\* --------------------------------------------------------- balance ledger
CardTypes == {"CHECK_CARD", "CREDIT_CARD"}

\* Variant of _apply_balance without the card branch.
ApplyBalanceNoCardPin(s, account_id, delta) ==
    IF account_id = Null \/ delta = 0 \/ account_id \notin DOMAIN s.accounts THEN s
    ELSE [s EXCEPT !.accounts[account_id].balance = @ + delta]

\* routers.py _apply_balance
_apply_balance(s, account_id, delta) ==
    IF account_id = Null \/ delta = 0 THEN s
    ELSE IF account_id \notin DOMAIN s.accounts THEN s
    ELSE IF s.accounts[account_id].type \in CardTypes
         THEN [s EXCEPT !.accounts[account_id].balance = 0]
    ELSE [s EXCEPT !.accounts[account_id].balance = @ + delta]

_apply_single_transfer_effect(s, account_id, counter_account_id, amount) ==
    LET s1 == _apply_balance(s, account_id, amount)
    IN  IF counter_account_id # Null /\ counter_account_id # account_id
        THEN _apply_balance(s1, counter_account_id, -amount) ELSE s1

_revert_single_transfer_effect(s, account_id, counter_account_id, amount) ==
    LET s1 == _apply_balance(s, account_id, -amount)
    IN  IF counter_account_id # Null /\ counter_account_id # account_id
        THEN _apply_balance(s1, counter_account_id, amount) ELSE s1

_is_effectively_neutral_txn(t) == t.is_balance_neutral \/ t.exclude_from_reports

\* ------------------------------------------------- credit-card statements
RECURSIVE SumAmounts(_, _)
SumAmounts(txns, ids) ==
    IF ids = {} THEN 0
    ELSE LET i == CHOOSE x \in ids : TRUE
         IN  txns[i].amount + SumAmounts(txns, ids \ {i})

\* routers.py _compute_credit_card_statement_window; the caller has checked
\* that the account's cutoff and payment days are configured.
_compute_credit_card_statement_window(account, occurred_at) ==
    LET cutoff_day == account.billing_cutoff_day
        payment_day == account.payment_day
        end_ym == IF occurred_at[3] <= cutoff_day
                  THEN <<occurred_at[1], occurred_at[2]>>
                  ELSE _add_month(occurred_at[1], occurred_at[2], 1)
        period_end == _clamp_day(end_ym[1], end_ym[2], cutoff_day)
        prev_ym == _add_month(end_ym[1], end_ym[2], -1)
        prev_period_end == _clamp_day(prev_ym[1], prev_ym[2], cutoff_day)
        due_ym == _add_month(end_ym[1], end_ym[2], 1)
    IN  [period_start |-> NextDay(prev_period_end),
         period_end |-> period_end,
         due_date |-> _clamp_day(due_ym[1], due_ym[2], payment_day)]

\* routers.py _close_outdated_statements
_close_outdated_statements(s, account_id, new_period_start) ==
    [s EXCEPT !.stmts =
        [k \in DOMAIN s.stmts |->
            IF /\ s.stmts[k].account_id = account_id
               /\ DateLT(s.stmts[k].period_end, new_period_start)
               /\ s.stmts[k].status = "pending"
            THEN [s.stmts[k] EXCEPT !.status = "closed"]
            ELSE s.stmts[k]]]

\* Variant of the reopening rule that reopens a statement in any
\* non-pending status.
ReopenAnyStatus(stmt, occurred_at) ==
    IF stmt.status # "pending" /\ DateLE(occurred_at, stmt.period_end)
    THEN [stmt EXCEPT !.status = "pending"] ELSE stmt

\* _get_or_create_credit_card_statement, the found branch: only a closed
\* statement is reopened.
ReopenIfClosed(stmt, occurred_at) ==
    IF stmt.status = "closed" /\ DateLE(occurred_at, stmt.period_end)
    THEN [stmt EXCEPT !.status = "pending"] ELSE stmt

\* routers.py _get_or_create_credit_card_statement; the statement's id is
\* left in s.ret.
_get_or_create_credit_card_statement(s, account_id, occurred_at) ==
    LET account == s.accounts[account_id]
        Found(s1, w) == {k \in DOMAIN s1.stmts :
                           /\ s1.stmts[k].account_id = account_id
                           /\ s1.stmts[k].period_start = w.period_start
                           /\ s1.stmts[k].period_end = w.period_end}
        Lookup(s1, w, found) ==
            IF found # {}
            THEN LET k == CHOOSE x \in found : \A y \in found : x <= y
                 IN  [s1 EXCEPT !.stmts[k] = ReopenIfClosed(@, occurred_at), !.ret = k]
            ELSE LET k == NextId(s1.stmts)
                 IN  [s1 EXCEPT
                        !.stmts = Extend(s1.stmts, k,
                            [account_id |-> account_id,
                             period_start |-> w.period_start,
                             period_end |-> w.period_end,
                             due_date |-> w.due_date,
                             total_amount |-> 0, status |-> "pending",
                             settlement_transaction_id |-> Null]),
                        !.ret = k]
        Closed(s1, w) == Lookup(s1, w, Found(s1, w))
        Window(w) == Closed(_close_outdated_statements(s, account_id, w.period_start), w)
    IN  IF account.billing_cutoff_day = Null \/ account.payment_day = Null
        THEN [s EXCEPT !.err = 400]
        ELSE Window(_compute_credit_card_statement_window(account, occurred_at))

\* routers.py _recalculate_statement_total
_recalculate_statement_total(s, statement_id) ==
    LET ids == {i \in DOMAIN s.txns :
                  /\ s.txns[i].billing_cycle_id = statement_id
                  /\ s.txns[i].status = "PENDING_PAYMENT"}
        total == -SumAmounts(s.txns, ids)
    IN  [s EXCEPT !.stmts[statement_id].total_amount =
                      IF total < 0 THEN 0 ELSE total]

\* ------------------------------------------------- check-card auto-mirror
\* The row the mirror logic treats as the existing partner of tx.
LinkedPartner(s, tx) ==
    IF tx.linked_transaction_id # Null /\ tx.linked_transaction_id \in DOMAIN s.txns
    THEN tx.linked_transaction_id
    ELSE LET back == {j \in DOMAIN s.txns : s.txns[j].linked_transaction_id = tx.id}
         IN  IF back = {} THEN Null ELSE CHOOSE j \in back : \A k \in back : j <= k

\* _sync_check_card_auto_deduct._delete_existing
_delete_existing(s, tx_id, target) ==
    IF target = Null THEN s
    ELSE
    LET t == s.txns[target]
        s1 == IF ~_is_effectively_neutral_txn(t)
              THEN _apply_balance(s, AccountIdOf(t), -t.amount) ELSE s
        s2 == [s1 EXCEPT !.txns[target].linked_transaction_id = Null]
        s3 == DeleteTxn(s2, target)
    IN  SetObj(s3, tx_id, [Obj(s3, tx_id) EXCEPT !.linked_transaction_id = Null])

\* Variant of the mirror creation that leaves the card row's pointer unset.
CreateMirrorNoBackPointer(s, tx_id, deposit_id, account_id) ==
    LET tx == Obj(s, tx_id)
        deposit_tx == Transaction([NoData EXCEPT
                !.type = "TRANSFER", !.account_id = deposit_id,
                !.counter_account_id = account_id, !.amount = tx.amount,
                !.occurred_at = tx.occurred_at,
                !.occurred_time = tx.occurred_time, !.memo = tx.memo,
                !.payee_id = tx.payee_id,
                !.linked_transaction_id = tx.id])
        s1 == AddTxn(s, deposit_tx)
        new_id == NextId(s.txns)
    IN  _apply_balance(s1, AccountIdOf(s1.txns[new_id]), tx.amount)

\* _sync_check_card_auto_deduct, no partner yet: the deposit-side transfer
\* is created, applied to the deposit and linked both ways.
CreateMirror(s, tx_id, deposit_id, account_id) ==
    LET tx == Obj(s, tx_id)
        deposit_tx == Transaction([NoData EXCEPT
                !.type = "TRANSFER", !.account_id = deposit_id,
                !.counter_account_id = account_id, !.amount = tx.amount,
                !.occurred_at = tx.occurred_at,
                !.occurred_time = tx.occurred_time, !.memo = tx.memo,
                !.payee_id = tx.payee_id,
                !.linked_transaction_id = tx.id])
        s1 == AddTxn(s, deposit_tx)
        new_id == NextId(s.txns)
        s2 == _apply_balance(s1, AccountIdOf(s1.txns[new_id]), tx.amount)
    IN  SetObj(s2, tx_id, [Obj(s2, tx_id) EXCEPT !.linked_transaction_id = new_id])

\* _sync_check_card_auto_deduct, a partner exists: its prior effect is
\* reverted, the row is overwritten as the mirror and applied again.
OverwriteMirror(s, tx_id, existing, deposit_id, account_id) ==
    LET tx == Obj(s, tx_id)
        e0 == s.txns[existing]
        s1 == IF ~_is_effectively_neutral_txn(e0)
              THEN _apply_balance(s, AccountIdOf(e0), -e0.amount) ELSE s
        e1 == SetCounterAccountId(SetAccountId(e0, deposit_id), account_id)
        e2 == [e1 EXCEPT
                 !.amount = tx.amount, !.occurred_at = tx.occurred_at,
                 !.occurred_time = tx.occurred_time, !.memo = tx.memo,
                 !.payee_id = tx.payee_id,
                 !.type = "TRANSFER", !.group_id = Null,
                 !.external_id = NoExt,
                 !.is_auto_transfer_match = FALSE,
                 !.is_balance_neutral = FALSE,
                 !.exclude_from_reports = FALSE,
                 !.linked_transaction_id = tx.id]
        s2 == [s1 EXCEPT !.txns[existing] = e2]
        s3 == _apply_balance(s2, AccountIdOf(e2), e2.amount)
    IN  SetObj(s3, tx_id, [Obj(s3, tx_id) EXCEPT !.linked_transaction_id = existing])

\* routers.py _sync_check_card_auto_deduct; given_account is the account the
\* caller passes (Null when it passes none).
_sync_check_card_auto_deduct(s, tx_id, given_account, remove) ==
    LET tx == Obj(s, tx_id)
        account_id == IF given_account # Null THEN given_account ELSE AccountIdOf(tx)
    IN  IF account_id = Null \/ account_id \notin DOMAIN s.accounts THEN s
        ELSE
        LET account == s.accounts[account_id]
            existing == LinkedPartner(s, tx)
            deposit_id == account.linked_account_id
        IN  IF account.type # "CHECK_CARD" /\ ~remove THEN s
            ELSE IF remove \/ deposit_id = Null THEN _delete_existing(s, tx_id, existing)
            ELSE IF deposit_id \notin DOMAIN s.accounts
                 THEN _delete_existing(s, tx_id, existing)
            ELSE IF tx.amount >= 0 THEN _delete_existing(s, tx_id, existing)
            ELSE IF existing # Null
                 THEN OverwriteMirror(s, tx_id, existing, deposit_id, account_id)
            ELSE CreateMirror(s, tx_id, deposit_id, account_id)

\* routers.py _clear_linked_transaction_pointer
_clear_linked_transaction_pointer(s, tx_id) ==
    LET tx == Obj(s, tx_id)
        other == LinkedPartner(s, tx)
        s1 == IF other # Null /\ s.txns[other].linked_transaction_id = tx_id
              THEN [s EXCEPT !.txns[other].linked_transaction_id = Null] ELSE s
    IN  SetObj(s1, tx_id, [Obj(s1, tx_id) EXCEPT !.linked_transaction_id = Null])

\* ------------------------------------------- schemas.py: TransactionCreate
\* The keyword arguments of a TransactionCreate, all absent.
NoValues ==
    [type |-> "EXPENSE", account_id |-> Null, counter_account_id |-> Null,
     has_from |-> FALSE, from_account_id |-> Null,
     has_to |-> FALSE, to_account_id |-> Null,
     account_name |-> Null, counter_account_name |-> Null,
     from_account_name |-> Null, to_account_name |-> Null,
     amount |-> 0, external_id |-> NoExt, transfer_flow |-> "",
     exclude_from_reports |-> FALSE, is_balance_neutral |-> FALSE,
     occurred_at |-> NoDate, occurred_time |-> Null, memo |-> 0,
     payee_id |-> Null]

\* TransactionCreate._pre_normalize_legacy: legacy keys become directional
\* ones; set_from / set_to record which id fields count as set.
TransactionCreate(v) ==
    LET legacy == v.account_id # Null /\ v.from_account_id = Null /\ v.to_account_id = Null
        toSide == v.type \in {"INCOME", "SETTLEMENT"}
        from1 == IF legacy /\ ~toSide THEN v.account_id ELSE v.from_account_id
        to1 == IF legacy /\ toSide THEN v.account_id ELSE v.to_account_id
        to2 == IF v.counter_account_id # Null /\ to1 = Null
               THEN v.counter_account_id ELSE to1
        legacyName == v.account_name # Null /\ v.from_account_name = Null
                      /\ v.to_account_name = Null
        fromName1 == IF legacyName /\ ~toSide THEN v.account_name
                     ELSE v.from_account_name
        toName1 == IF legacyName /\ toSide THEN v.account_name ELSE v.to_account_name
        toName2 == IF v.counter_account_name # Null /\ toName1 = Null
                   THEN v.counter_account_name ELSE toName1
    IN  [type |-> v.type,
         from_account_id |-> from1, to_account_id |-> to2,
         set_from |-> v.has_from \/ (legacy /\ ~toSide),
         set_to |-> v.has_to \/ (legacy /\ toSide)
                    \/ (v.counter_account_id # Null /\ to1 = Null),
         from_account_name |-> fromName1, to_account_name |-> toName2,
         amount |-> v.amount, external_id |-> v.external_id,
         transfer_flow |-> v.transfer_flow,
         exclude_from_reports |-> v.exclude_from_reports,
         is_balance_neutral |-> v.is_balance_neutral,
         occurred_at |-> v.occurred_at, occurred_time |-> v.occurred_time,
         memo |-> v.memo, payee_id |-> v.payee_id]

\* TransactionCreate.validate_references (category and card fields aside).
validate_references(p) ==
    /\ ~(p.from_account_id = Null /\ p.from_account_name = Null
         /\ p.to_account_id = Null /\ p.to_account_name = Null)
    /\ p.type \in {"EXPENSE", "SETTLEMENT"}
         => (p.from_account_id # Null \/ p.from_account_name # Null)
    /\ p.type \in {"INCOME", "SETTLEMENT"}
         => (p.to_account_id # Null \/ p.to_account_name # Null)
    /\ p.type = "TRANSFER"
         => ~(p.from_account_id # Null /\ p.to_account_id # Null
              /\ p.from_account_id = p.to_account_id)

\* The computed fields of TransactionCreate.
PayloadAccountId(p) ==
    IF p.type = "INCOME" THEN p.to_account_id ELSE p.from_account_id
PayloadAccountName(p) ==
    IF p.type = "INCOME" THEN p.to_account_name ELSE p.from_account_name
PayloadCounterAccountId(p) ==
    IF p.type = "INCOME" THEN p.from_account_id ELSE p.to_account_id
PayloadCounterAccountName(p) ==
    IF p.type = "INCOME" THEN p.from_account_name ELSE p.to_account_name

\* routers.py get_or_create_account_by_name; the account's id is left in s.ret.
get_or_create_account_by_name(s, name) ==
    LET found == {a \in DOMAIN s.accounts : s.accounts[a].name = name}
    IN  IF found # {}
        THEN [s EXCEPT !.ret = CHOOSE a \in found : \A b \in found : a <= b]
        ELSE LET a == NextId(s.accounts)
             IN  [s EXCEPT
                    !.accounts = Extend(s.accounts, a,
                        [name |-> name, type |-> "OTHER", balance |-> 0,
                         linked_account_id |-> Null,
                         billing_cutoff_day |-> Null, payment_day |-> Null]),
                    !.ret = a]

\* Session.commit: a constraint violation rolls everything back (500).
Commit(s) == IF s.err = 0 /\ ~TableConstraintsOk(s) THEN [s EXCEPT !.err = 500] ELSE s

\* ------------------------------------------ routers.py: create_transaction
\* Variant of the lookup by external id that never finds a row.
FindNoExternalId(s, ext_id) == {}

\* The rows carrying an external id (the query both create_transaction and
\* the recurring handlers make).
FindByExternalId(s, ext_id) ==
    {i \in DOMAIN s.txns : ext_id # NoExt /\ s.txns[i].external_id = ext_id}

\* create_transaction, lines 1999-2070: the TRANSFER branch.  data carries
\* the resolved account_id; the returned row's id is left in s.ret.
CreateTransferRows(s, p, data, neutral, auto_transfer_match) ==
    LET account_id == data.account_id
        Rows(s0, counter) ==
            IF auto_transfer_match
            THEN IF counter = Null THEN [s EXCEPT !.err = 400]
                 ELSE
                 LET direction == IF p.transfer_flow # "" THEN p.transfer_flow
                                  ELSE IF data.amount < 0 THEN "OUT" ELSE "IN"
                     signed_amount == IF direction = "OUT" THEN -Abs(data.amount)
                                      ELSE Abs(data.amount)
                     item == Transaction([data EXCEPT
                                !.counter_account_id = counter,
                                !.amount = signed_amount,
                                !.is_balance_neutral = FALSE,
                                !.is_auto_transfer_match = TRUE,
                                !.exclude_from_reports = FALSE])
                     s1 == AddTxn(s0, item)
                     s2 == _apply_single_transfer_effect(s1, account_id, counter, signed_amount)
                 IN  [s2 EXCEPT !.ret = NextId(s0.txns)]
            ELSE IF counter = Null
            THEN LET item == Transaction([data EXCEPT !.counter_account_id = account_id])
                     s1 == AddTxn(s0, item)
                     s2 == IF ~neutral THEN _apply_balance(s1, account_id, data.amount) ELSE s1
                 IN  [s2 EXCEPT !.ret = NextId(s0.txns)]
            ELSE
            LET tg == IF s0.groups = {} THEN 1 ELSE Max(s0.groups) + 1
                out_tx == Transaction([data EXCEPT
                            !.counter_account_id = counter, !.group_id = tg,
                            !.amount = -Abs(data.amount),
                            !.is_auto_transfer_match = auto_transfer_match,
                            !.is_balance_neutral = data.is_balance_neutral \/ neutral])
                in_tx == Transaction([data EXCEPT
                            !.group_id = tg, !.account_id = counter,
                            !.counter_account_id = account_id,
                            !.amount = Abs(data.amount), !.external_id = NoExt,
                            !.is_auto_transfer_match = auto_transfer_match,
                            !.is_balance_neutral = data.is_balance_neutral \/ neutral])
                s1 == [s0 EXCEPT !.groups = @ \cup {tg}]
                s2 == IF ~neutral
                      THEN _apply_balance(_apply_balance(s1, account_id, -Abs(data.amount)),
                                          counter, Abs(data.amount))
                      ELSE s1
                s3 == AddTxn(AddTxn(s2, out_tx), in_tx)
            IN  [s3 EXCEPT !.ret = NextId(s0.txns)]
        Resolved(s0) == Rows(s0, s0.ret)
    IN  Resolved(IF PayloadCounterAccountId(p) = Null /\ PayloadCounterAccountName(p) # Null
                 THEN get_or_create_account_by_name(s, PayloadCounterAccountName(p))
                 ELSE [s EXCEPT !.ret = PayloadCounterAccountId(p)])

\* create_transaction, lines 2072-2090: income / expense rows.
CreateSingleRow(s, data, neutral, statement) ==
    LET account == s.accounts[data.account_id]
        new_id == NextId(s.txns)
        Pinned(z) ==
            IF statement # Null THEN _recalculate_statement_total(z, statement) ELSE z
        Synced(s2) ==
            IF account.type = "CHECK_CARD"
            THEN _sync_check_card_auto_deduct(s2, new_id, data.account_id, FALSE)
            ELSE s2
        Applied(s1) ==
            Synced(IF ~neutral /\ account.type \notin CardTypes
                   THEN _apply_balance(s1, data.account_id, data.amount)
                   ELSE IF account.type = "CHECK_CARD"
                   THEN [s1 EXCEPT !.accounts[data.account_id].balance = 0]
                   ELSE IF account.type = "CREDIT_CARD"
                   THEN Pinned([s1 EXCEPT !.accounts[data.account_id].balance = 0])
                   ELSE s1)
    IN  [Applied(AddTxn(s, Transaction(data))) EXCEPT !.ret = new_id]

\* routers.py create_transaction.  The payloads of the model carry a valid
\* category and no card_id, so a SETTLEMENT payload is refused (lines
\* 1922-1926).  The row returned is left in s.ret, the HTTP error in s.err.
create_transaction(s, p, balance_neutral, auto_transfer_match) ==
    LET exists == FindByExternalId(s, p.external_id)
    IN  IF exists # {} THEN [s EXCEPT !.ret = Max(exists)]
        ELSE
        LET is_neutral0 == p.is_balance_neutral \/ balance_neutral
                           \/ p.exclude_from_reports
            neutral0 == is_neutral0 \/ p.exclude_from_reports
            Created(s1, account_id, is_cc) ==
                LET statement == s1.ret
                    neutral == neutral0 \/ is_cc
                    data == [NoData EXCEPT
                        !.type = p.type, !.account_id = account_id,
                        !.counter_account_id = PayloadCounterAccountId(p),
                        !.has_from = p.set_from, !.from_account_id = p.from_account_id,
                        !.has_to = p.set_to, !.to_account_id = p.to_account_id,
                        !.card_id = IF is_cc THEN account_id ELSE Null,
                        !.amount = p.amount,
                        !.billing_cycle_id = statement,
                        !.status = IF is_cc THEN "PENDING_PAYMENT" ELSE "CLEARED",
                        !.is_balance_neutral = is_neutral0 \/ is_cc,
                        !.is_auto_transfer_match = auto_transfer_match,
                        !.exclude_from_reports = p.exclude_from_reports /\ ~is_cc,
                        !.is_card_charge = is_cc,
                        !.external_id = p.external_id,
                        !.occurred_at = p.occurred_at,
                        !.occurred_time = p.occurred_time, !.memo = p.memo,
                        !.payee_id = p.payee_id]
                IN  IF is_cc /\ p.type \notin {"EXPENSE", "INCOME"}
                    THEN [s EXCEPT !.err = 400]
                    ELSE IF s1.err # 0 THEN s1
                    ELSE IF p.type = "SETTLEMENT" THEN [s EXCEPT !.err = 400]
                    ELSE IF p.type = "TRANSFER"
                    THEN Commit(CreateTransferRows(s1, p, data, neutral,
                                                   auto_transfer_match))
                    ELSE Commit(CreateSingleRow(s1, data, neutral, statement))
            OnAccount(s0, account_id, is_cc) ==
                Created(IF is_cc
                        THEN _get_or_create_credit_card_statement(s0, account_id,
                                                                  p.occurred_at)
                        ELSE [s0 EXCEPT !.ret = Null],
                        account_id, is_cc)
            Resolved(s0) ==
                IF s0.err # 0 THEN s0
                ELSE IF s0.ret \notin DOMAIN s0.accounts THEN [s EXCEPT !.err = 400]
                ELSE OnAccount(s0, s0.ret, s0.accounts[s0.ret].type = "CREDIT_CARD")
        IN  Resolved(IF PayloadAccountId(p) = Null
                     THEN IF PayloadAccountName(p) = Null THEN [s EXCEPT !.err = 400]
                          ELSE get_or_create_account_by_name(s, PayloadAccountName(p))
                     ELSE [s EXCEPT !.ret = PayloadAccountId(p)])

\* ------------------------------------------ routers.py: update_transaction
\* TransactionUpdate after model_dump(exclude_unset=True): which keys the
\* request set, and their values.
NoChanges ==
    [set_occurred_at |-> FALSE, occurred_at |-> NoDate,
     set_from |-> FALSE, from_account_id |-> Null,
     set_to |-> FALSE, to_account_id |-> Null,
     set_amount |-> FALSE, amount |-> 0,
     set_memo |-> FALSE, memo |-> 0,
     set_payee |-> FALSE, payee_id |-> Null,
     set_exclude |-> FALSE, exclude_from_reports |-> FALSE]

IsEmptyChanges(c) ==
    ~(c.set_occurred_at \/ c.set_from \/ c.set_to \/ c.set_amount
      \/ c.set_memo \/ c.set_payee \/ c.set_exclude)

\* TransactionUpdate._pre_normalize_legacy_update for a request that names
\* account_id without a type: both directional fields are set.
LegacyAccountChange(account_id) ==
    [NoChanges EXCEPT !.set_from = TRUE, !.from_account_id = account_id,
                      !.set_to = TRUE, !.to_account_id = account_id]

\* for key, value in changes.items(): setattr(tx, key, value)
SetAttrs(t, c) ==
    [t EXCEPT
       !.occurred_at = IF c.set_occurred_at THEN c.occurred_at ELSE @,
       !.from_account_id = IF c.set_from THEN c.from_account_id ELSE @,
       !.to_account_id = IF c.set_to THEN c.to_account_id ELSE @,
       !.amount = IF c.set_amount THEN c.amount ELSE @,
       !.memo = IF c.set_memo THEN c.memo ELSE @,
       !.payee_id = IF c.set_payee THEN c.payee_id ELSE @,
       !.exclude_from_reports = IF c.set_exclude THEN c.exclude_from_reports ELSE @]

\* routers.py _update_credit_card_transaction (the changes never carry an
\* "account_id" key, so the target account is the row's current account).
_update_credit_card_transaction(s, tx_id, changes) ==
    LET tx == Obj(s, tx_id)
        target_account_id == AccountIdOf(tx)
    IN  IF target_account_id = Null \/ target_account_id \notin DOMAIN s.accounts
        THEN [s EXCEPT !.err = 400]
        ELSE IF s.accounts[target_account_id].type # "CREDIT_CARD"
        THEN [s EXCEPT !.err = 400]
        ELSE
        LET occurred_at == IF changes.set_occurred_at THEN changes.occurred_at
                           ELSE tx.occurred_at
            old_statement == tx.billing_cycle_id
            t1 == SetAttrs(tx, changes)
            t2(statement) ==
                [t1 EXCEPT
                   !.billing_cycle_id = statement,
                   !.is_balance_neutral = TRUE,
                   !.card_account_id = target_account_id,
                   !.is_card_charge = TRUE,
                   !.status = IF @ # "CLEARED" THEN "PENDING_PAYMENT" ELSE @]
            Moved(s2, statement) ==
                _recalculate_statement_total(
                    IF old_statement # Null /\ old_statement # statement
                       /\ old_statement \in DOMAIN s2.stmts
                    THEN _recalculate_statement_total(s2, old_statement) ELSE s2,
                    statement)
            Assigned(s1) ==
                IF s1.err # 0 THEN s1 ELSE Moved(SetObj(s1, tx_id, t2(s1.ret)), s1.ret)
        IN  Assigned(_get_or_create_credit_card_statement(s, target_account_id,
                                                          occurred_at))

\* The two legs of a transfer group as update_transaction picks them:
\* <<out_tx, in_tx>>, for exactly two siblings.
PickLegs(s, group_id) ==
    LET ids == {i \in DOMAIN s.txns : s.txns[i].group_id = group_id}
        lo == CHOOSE i \in ids : \A j \in ids : i <= j
        hi == CHOOSE i \in ids : \A j \in ids : j <= i
        neg == {i \in ids : s.txns[i].amount < 0}
        out_tx == IF neg # {} THEN CHOOSE i \in neg : \A j \in neg : i <= j ELSE lo
        pos == {i \in ids : s.txns[i].amount > 0 /\ i # out_tx}
        in_tx == IF pos # {} THEN CHOOSE i \in pos : \A j \in pos : i <= j ELSE hi
    IN  <<out_tx, in_tx>>

\* update_transaction, lines 2122-2189: a grouped transfer is updated as a
\* pair.
UpdateGroupedTransfer(s, tx_id, changes) ==
    LET tx == s.txns[tx_id]
        ids == {i \in DOMAIN s.txns : s.txns[i].group_id = tx.group_id}
    IN  IF Cardinality(ids) # 2 THEN [s EXCEPT !.err = 409]
        ELSE
        LET legs == PickLegs(s, tx.group_id)
            o0 == s.txns[legs[1]]
            i0 == s.txns[legs[2]]
            old_src_id == AccountIdOf(o0)
            old_dst_id == AccountIdOf(i0)
            s1 == IF ~_is_effectively_neutral_txn(o0)
                  THEN _apply_balance(_apply_balance(s, old_src_id, -o0.amount),
                                      old_dst_id, -i0.amount)
                  ELSE s
            base_amount == Abs(IF changes.set_amount THEN changes.amount ELSE i0.amount)
            new_src_id == old_src_id
            copied == [NoChanges EXCEPT
                         !.set_memo = changes.set_memo, !.memo = changes.memo,
                         !.set_payee = changes.set_payee,
                         !.payee_id = changes.payee_id,
                         !.set_occurred_at = changes.set_occurred_at,
                         !.occurred_at = changes.occurred_at,
                         !.set_exclude = changes.set_exclude,
                         !.exclude_from_reports = changes.exclude_from_reports]
            o1 == SetAttrs([SetCounterAccountId(SetAccountId(o0, new_src_id), old_dst_id)
                              EXCEPT !.amount = -base_amount], copied)
            i1 == SetAttrs([SetCounterAccountId(SetAccountId(i0, old_dst_id), new_src_id)
                              EXCEPT !.amount = base_amount], copied)
            s2 == [s1 EXCEPT !.txns[legs[1]] = o1, !.txns[legs[2]] = i1]
        IN  IF ~_is_effectively_neutral_txn(o1)
            THEN _apply_balance(_apply_balance(s2, AccountIdOf(o1), o1.amount),
                                AccountIdOf(i1), i1.amount)
            ELSE s2

\* update_transaction, lines 2191-2223: a transfer row without a group.
UpdateSingleTransfer(s, tx_id, changes) ==
    LET t0 == s.txns[tx_id]
        s1 == IF _is_effectively_neutral_txn(t0) THEN s
              ELSE IF t0.is_auto_transfer_match /\ CounterAccountIdOf(t0) # Null
              THEN _revert_single_transfer_effect(s, AccountIdOf(t0),
                                                  CounterAccountIdOf(t0), t0.amount)
              ELSE _apply_balance(s, AccountIdOf(t0), -t0.amount)
        t1 == SetAttrs(t0, changes)
        s2 == [s1 EXCEPT !.txns[tx_id] = t1]
    IN  IF _is_effectively_neutral_txn(t1) THEN s2
        ELSE IF t1.is_auto_transfer_match /\ CounterAccountIdOf(t1) # Null
        THEN _apply_single_transfer_effect(s2, AccountIdOf(t1),
                                           CounterAccountIdOf(t1), t1.amount)
        ELSE _apply_balance(s2, AccountIdOf(t1), t1.amount)

\* update_transaction, lines 2255-2269: income / expense rows (the requests
\* of the model do not change the type).
UpdateSingleRow(s, tx_id, changes) ==
    LET t0 == s.txns[tx_id]
        s1 == IF ~_is_effectively_neutral_txn(t0)
              THEN _apply_balance(s, AccountIdOf(t0), -t0.amount) ELSE s
        t1 == SetAttrs(t0, changes)
        s2 == [s1 EXCEPT !.txns[tx_id] = t1]
        s3 == IF ~_is_effectively_neutral_txn(t1)
              THEN _apply_balance(s2, AccountIdOf(t1), t1.amount) ELSE s2
    IN  _sync_check_card_auto_deduct(s3, tx_id, Null, FALSE)

\* routers.py update_transaction
update_transaction(s, txn_id, changes) ==
    IF txn_id \notin DOMAIN s.txns THEN [s EXCEPT !.err = 404]
    ELSE IF IsEmptyChanges(changes) THEN s
    ELSE
    LET tx == s.txns[txn_id]
        account_id == AccountIdOf(tx)
        is_cc == account_id \in DOMAIN s.accounts
                 /\ s.accounts[account_id].type = "CREDIT_CARD"
    IN  IF tx.billing_cycle_id # Null \/ is_cc
        THEN Commit(_update_credit_card_transaction(s, txn_id, changes))
        ELSE IF tx.type = "TRANSFER" /\ tx.group_id # Null
        THEN Commit(UpdateGroupedTransfer(s, txn_id, changes))
        ELSE IF tx.type = "TRANSFER"
        THEN Commit(UpdateSingleTransfer(s, txn_id, changes))
        ELSE Commit(UpdateSingleRow(s, txn_id, changes))

\* ---------------------------------------- routers.py: delete_transaction
RECURSIVE SortedSeq(_)
SortedSeq(S) ==
    IF S = {} THEN <<>>
    ELSE LET lo == CHOOSE x \in S : \A y \in S : x <= y
         IN  <<lo>> \o SortedSeq(S \ {lo})

\* The revert every delete path applies to one row object.
RevertRow(s, t) ==
    IF _is_effectively_neutral_txn(t) THEN s
    ELSE IF t.type = "TRANSFER" /\ t.is_auto_transfer_match /\ CounterAccountIdOf(t) # Null
    THEN _revert_single_transfer_effect(s, AccountIdOf(t), CounterAccountIdOf(t), t.amount)
    ELSE _apply_balance(s, AccountIdOf(t), -t.amount)

RECURSIVE DeleteSiblings(_, _)
DeleteSiblings(s, ids) ==
    IF ids = <<>> THEN s
    ELSE LET t == s.txns[Head(ids)]
             s1 == IF ~_is_effectively_neutral_txn(t)
                   THEN _apply_balance(s, AccountIdOf(t), -t.amount) ELSE s
         IN  DeleteSiblings(DeleteTxn(s1, Head(ids)), Tail(ids))

\* routers.py delete_transaction
delete_transaction(s, txn_id) ==
    IF txn_id \notin DOMAIN s.txns THEN [s EXCEPT !.err = 404]
    ELSE
    LET tx0 == s.txns[txn_id]
        statement == tx0.billing_cycle_id
        account_id == AccountIdOf(tx0)
        s1 == IF account_id \in DOMAIN s.accounts
                 /\ s.accounts[account_id].type = "CHECK_CARD"
              THEN _sync_check_card_auto_deduct(s, txn_id, Null, TRUE) ELSE s
        Recalculated(s3) ==
            IF statement # Null /\ statement \in DOMAIN s3.stmts
               /\ s3.stmts[statement].status # "paid"
            THEN _recalculate_statement_total(s3, statement) ELSE s3
        Deleted(s2, tx) ==
            IF tx.group_id # Null
            THEN DeleteSiblings(s2, SortedSeq({i \in DOMAIN s2.txns :
                                                 s2.txns[i].group_id = tx.group_id}))
            ELSE DeleteTxn(RevertRow(s2, tx), txn_id)
        Unlinked(s2) == Recalculated(Deleted(s2, s2.txns[txn_id]))
    IN  Commit(Unlinked(_clear_linked_transaction_pointer(s1, txn_id)))

\* bulk_delete_transactions, lines 3935-3942: the loop over the loaded row
\* objects, a row deleted earlier in the loop included.
RECURSIVE BulkDeleteLoop(_, _)
BulkDeleteLoop(s, ids) ==
    IF ids = <<>> THEN s
    ELSE LET s1 == _sync_check_card_auto_deduct(s, Head(ids), Null, TRUE)
             s2 == RevertRow(s1, Obj(s1, Head(ids)))
         IN  BulkDeleteLoop(DeleteTxn(s2, Head(ids)), Tail(ids))

\* routers.py bulk_delete_transactions: the requested rows in id order, then
\* the other members of their transfer groups.
bulk_delete_transactions(s, ids) ==
    LET existing == ids \cap DOMAIN s.txns
        group_ids == {s.txns[i].group_id : i \in existing} \ {Null}
        group_members == {i \in DOMAIN s.txns : s.txns[i].group_id \in group_ids}
        to_delete == SortedSeq(existing) \o SortedSeq(group_members \ existing)
    IN  IF to_delete = <<>> THEN s ELSE Commit(BulkDeleteLoop(s, to_delete))

\* ------------------------------ routers.py: settle_credit_card_statement
\* Variant of the status check that lets every statement through.
SettleStatusCheckNone(statement) == 0

\* settle_credit_card_statement, lines 1310-1311: a paid statement is
\* refused with a conflict.
SettleStatusCheck(statement) == IF statement.status = "paid" THEN 409 ELSE 0

\* Variant of the status update that leaves the charges pending.
ClearPendingNone(s, statement_id) == s

\* settle_credit_card_statement, lines 1418-1425: every pending-payment row
\* of the cycle becomes cleared.
ClearPending(s, statement_id) ==
    [s EXCEPT
       !.txns = [i \in DOMAIN s.txns |->
                   IF s.txns[i].billing_cycle_id = statement_id
                      /\ s.txns[i].status = "PENDING_PAYMENT"
                   THEN [s.txns[i] EXCEPT !.status = "CLEARED"]
                   ELSE s.txns[i]]]

settle_credit_card_statement(s, statement_id, create_card_entry) ==
    IF statement_id \notin DOMAIN s.stmts THEN [s EXCEPT !.err = 404]
    ELSE IF SettleStatusCheck(s.stmts[statement_id]) # 0
    THEN [s EXCEPT !.err = SettleStatusCheck(s.stmts[statement_id])]
    ELSE
    LET statement == s.stmts[statement_id]
        account_id == statement.account_id
        account == s.accounts[account_id]
        linked_id == account.linked_account_id
        s1 == _recalculate_statement_total(s, statement_id)
        outstanding == s1.stmts[statement_id].total_amount
        occurred_at == statement.due_date
        settlement_tx == Transaction([NoData EXCEPT
            !.type = "SETTLEMENT", !.account_id = linked_id,
            !.counter_account_id = account_id, !.card_id = account_id,
            !.amount = -outstanding, !.occurred_at = occurred_at,
            !.billing_cycle_id = statement_id])
        s2 == AddTxn(s1, settlement_tx)
        settlement_id == NextId(s1.txns)
        s3 == _apply_balance(s2, AccountIdOf(s2.txns[settlement_id]), -outstanding)
        card_entry == Transaction([NoData EXCEPT
            !.type = "SETTLEMENT", !.account_id = account_id,
            !.counter_account_id = linked_id, !.card_id = account_id,
            !.amount = outstanding, !.occurred_at = occurred_at,
            !.is_balance_neutral = TRUE, !.billing_cycle_id = statement_id,
            !.linked_transaction_id = settlement_id])
        s4 == IF create_card_entry
              THEN [AddTxn(s3, card_entry) EXCEPT
                      !.txns[settlement_id].linked_transaction_id = NextId(s3.txns)]
              ELSE s3
        s5 == [ClearPending(s4, statement_id) EXCEPT
                 !.stmts[statement_id] =
                     [@ EXCEPT !.status = "paid",
                               !.settlement_transaction_id = settlement_id,
                               !.total_amount = 0]]
    IN  IF account.type # "CREDIT_CARD" THEN [s EXCEPT !.err = 400]
        ELSE IF linked_id = Null \/ linked_id \notin DOMAIN s.accounts
        THEN [s EXCEPT !.err = 400]
        ELSE IF outstanding <= 0 THEN [s EXCEPT !.err = 400]
        ELSE Commit(_recalculate_statement_total(s5, statement_id))

\* ------------------------------ routers.py: bulk_update_transactions
\* bulk_update_transactions, lines 4094-4129: a grouped pair keeps its
\* accounts; amounts and the copied keys are rewritten on both legs.
BulkUpdateGroupedTransfer(s, tx_id, changes) ==
    LET tx == Obj(s, tx_id)
        legs == PickLegs(s, tx.group_id)
        o0 == s.txns[legs[1]]
        i0 == s.txns[legs[2]]
        s1 == IF ~_is_effectively_neutral_txn(o0)
              THEN _apply_balance(_apply_balance(s, AccountIdOf(o0), -o0.amount),
                                  AccountIdOf(i0), -i0.amount)
              ELSE s
        base_amount == Abs(IF changes.set_amount THEN changes.amount ELSE i0.amount)
        copied == [NoChanges EXCEPT
                     !.set_memo = changes.set_memo, !.memo = changes.memo,
                     !.set_payee = changes.set_payee,
                     !.payee_id = changes.payee_id,
                     !.set_occurred_at = changes.set_occurred_at,
                     !.occurred_at = changes.occurred_at,
                     !.set_exclude = changes.set_exclude,
                     !.exclude_from_reports = changes.exclude_from_reports]
        o1 == SetAttrs([o0 EXCEPT !.amount = -base_amount], copied)
        i1 == SetAttrs([i0 EXCEPT !.amount = base_amount], copied)
        s2 == [s1 EXCEPT !.txns[legs[1]] = o1, !.txns[legs[2]] = i1]
    IN  IF ~_is_effectively_neutral_txn(o1)
        THEN _apply_balance(_apply_balance(s2, AccountIdOf(o1), o1.amount),
                            AccountIdOf(i1), i1.amount)
        ELSE s2

\* bulk_update_transactions, lines 4131-4153: any other row object.
BulkUpdateSingle(s, tx_id, changes) ==
    LET t0 == Obj(s, tx_id)
        s1 == RevertRow(s, t0)
        t1 == SetAttrs(t0, changes)
        s2 == SetObj(s1, tx_id, t1)
        s3 == IF _is_effectively_neutral_txn(t1) THEN s2
              ELSE IF t1.type = "TRANSFER" /\ t1.is_auto_transfer_match
                      /\ CounterAccountIdOf(t1) # Null
              THEN _apply_single_transfer_effect(s2, AccountIdOf(t1),
                                                 CounterAccountIdOf(t1), t1.amount)
              ELSE _apply_balance(s2, AccountIdOf(t1), t1.amount)
    IN  _sync_check_card_auto_deduct(s3, tx_id, Null, FALSE)

\* The loop of bulk_update_transactions.  base is the database as of the
\* last commit (what db.rollback() returns to); s.ret counts updated_items.
RECURSIVE BulkUpdateLoop(_, _, _, _)
BulkUpdateLoop(s, base, ids, changes) ==
    IF ids = <<>> THEN s
    ELSE
    LET tx == Obj(s, Head(ids))
        account_id == AccountIdOf(tx)
        is_cc == account_id \in DOMAIN s.accounts
                 /\ s.accounts[account_id].type = "CREDIT_CARD"
        siblings == {i \in DOMAIN s.txns : s.txns[i].group_id = tx.group_id}
        r == IF tx.billing_cycle_id # Null \/ is_cc
             THEN _update_credit_card_transaction(s, Head(ids), changes)
             ELSE IF tx.type = "TRANSFER" /\ tx.group_id # Null
             THEN IF Cardinality(siblings) # 2 THEN [s EXCEPT !.err = -1]
                  ELSE BulkUpdateGroupedTransfer(s, Head(ids), changes)
             ELSE BulkUpdateSingle(s, Head(ids), changes)
        Updated(r1) ==
            IF r1.err = -1 THEN s
            ELSE IF r1.err # 0 THEN [base EXCEPT !.ret = s.ret]
            ELSE [r1 EXCEPT !.ret = s.ret + 1]
    IN  BulkUpdateLoop(Updated(r), base, Tail(ids), changes)

\* routers.py bulk_update_transactions
bulk_update_transactions(s, ids, changes) ==
    LET found == SortedSeq(ids \cap DOMAIN s.txns)
        Finish(r) == IF r.ret > 0 THEN Commit(r) ELSE s
    IN  Finish(BulkUpdateLoop([s EXCEPT !.ret = 0], s, found, changes))

\* ---------------------------- routers.py: bulk_move_transactions_account
RECURSIVE BulkMoveLoop(_, _, _)
BulkMoveLoop(s, ids, target_id) ==
    IF ids = <<>> THEN s
    ELSE
    LET t0 == Obj(s, Head(ids))
        s1 == RevertRow(s, t0)
        t1 == SetAccountId(t0, target_id)
        s2 == SetObj(s1, Head(ids), t1)
        s3 == IF _is_effectively_neutral_txn(t1) THEN s2
              ELSE IF t1.type = "TRANSFER" /\ t1.is_auto_transfer_match
                      /\ CounterAccountIdOf(t1) # Null
              THEN _apply_single_transfer_effect(s2, AccountIdOf(t1),
                                                 CounterAccountIdOf(t1), t1.amount)
              ELSE _apply_balance(s2, AccountIdOf(t1), t1.amount)
        s4 == _sync_check_card_auto_deduct(s3, Head(ids), Null, FALSE)
    IN  IF AccountIdOf(t0) = target_id \/ (t0.type = "TRANSFER" /\ t0.group_id # Null)
        THEN BulkMoveLoop(s, Tail(ids), target_id)
        ELSE BulkMoveLoop([s4 EXCEPT !.ret = s.ret + 1], Tail(ids), target_id)

\* routers.py bulk_move_transactions_account
bulk_move_transactions_account(s, ids, target_id) ==
    IF target_id \notin DOMAIN s.accounts THEN [s EXCEPT !.err = 400]
    ELSE LET Finish(r) == IF r.ret > 0 THEN Commit(r) ELSE s
         IN  Finish(BulkMoveLoop([s EXCEPT !.ret = 0],
                                 SortedSeq(ids \cap DOMAIN s.txns), target_id))

\* --------------------------------- services/transaction_service.py
\* TransactionBalanceService._apply_delta
_apply_delta(s, account_id, delta) ==
    IF account_id \notin DOMAIN s.accounts THEN s
    ELSE IF s.accounts[account_id].type \in CardTypes
    THEN [s EXCEPT !.accounts[account_id].balance = 0]
    ELSE [s EXCEPT !.accounts[account_id].balance = @ + delta]

\* TransactionBalanceService.apply_balance
apply_balance(s, from_account_id, to_account_id, amount) ==
    LET magnitude == Abs(amount)
        s1 == IF from_account_id # Null THEN _apply_delta(s, from_account_id, -magnitude)
              ELSE s
    IN  IF magnitude = 0 THEN s
        ELSE IF from_account_id # Null /\ from_account_id = to_account_id THEN s
        ELSE IF to_account_id # Null THEN _apply_delta(s1, to_account_id, magnitude)
        ELSE s1

\* Variant of revert_single_transfer_effect that leaves the destination alone.
RevertSourceOnly(s, from_account_id, to_account_id, amount) ==
    LET magnitude == Abs(amount)
    IN  IF magnitude = 0 THEN s
        ELSE IF from_account_id # Null /\ from_account_id = to_account_id THEN s
        ELSE IF from_account_id # Null THEN _apply_delta(s, from_account_id, magnitude)
        ELSE s

\* TransactionBalanceService.revert_single_transfer_effect
revert_single_transfer_effect(s, from_account_id, to_account_id, amount) ==
    LET magnitude == Abs(amount)
        s1 == IF from_account_id # Null THEN _apply_delta(s, from_account_id, magnitude)
              ELSE s
    IN  IF magnitude = 0 THEN s
        ELSE IF from_account_id # Null /\ from_account_id = to_account_id THEN s
        ELSE IF to_account_id # Null THEN _apply_delta(s1, to_account_id, -magnitude)
        ELSE s1

\* TransactionBalanceService.apply_signed_delta
apply_signed_delta(s, account_id, delta) ==
    IF account_id = Null \/ delta = 0 THEN s
    ELSE IF delta > 0 THEN apply_balance(s, Null, account_id, delta)
    ELSE apply_balance(s, account_id, Null, Abs(delta))

\* ------------------------------------------ api/accounts/handlers.py
\* handlers.py create_account; terms are <<billing_cutoff_day, payment_day>>
\* or <<>>.
create_account(s, name, type, linked_id, current_balance, terms) ==
    LET exists == \E a \in DOMAIN s.accounts : s.accounts[a].name = name
        linkedOk == linked_id \in DOMAIN s.accounts
                    /\ s.accounts[linked_id].type = "DEPOSIT"
        new_id == NextId(s.accounts)
        row == [name |-> name, type |-> type,
                balance |-> IF type \in CardTypes THEN 0 ELSE current_balance,
                linked_account_id |-> linked_id,
                billing_cutoff_day |-> IF type = "CREDIT_CARD" THEN terms[1] ELSE Null,
                payment_day |-> IF type = "CREDIT_CARD" THEN terms[2] ELSE Null]
    IN  IF exists THEN [s EXCEPT !.err = 409]
        ELSE IF type = "CHECK_CARD" /\ linked_id # Null /\ ~linkedOk
        THEN [s EXCEPT !.err = 400]
        ELSE IF type = "CREDIT_CARD" /\ (linked_id = Null \/ ~linkedOk \/ terms = <<>>)
        THEN [s EXCEPT !.err = 400]
        ELSE IF type \notin CardTypes /\ linked_id # Null THEN [s EXCEPT !.err = 400]
        ELSE [s EXCEPT !.accounts = Extend(s.accounts, new_id, row), !.ret = new_id]

\* handlers.py _resync_check_card_auto_deduct_for_account: the query form of
\* Transaction.account_id is the from_account_id column.
RECURSIVE ResyncLoop(_, _, _, _)
ResyncLoop(s, ids, account_id, force_remove) ==
    IF ids = <<>> THEN s
    ELSE ResyncLoop(_sync_check_card_auto_deduct(s, Head(ids), account_id, force_remove),
                    Tail(ids), account_id, force_remove)

_resync_check_card_auto_deduct_for_account(s, account_id, force_remove) ==
    ResyncLoop(s, SortedSeq({i \in DOMAIN s.txns : s.txns[i].from_account_id = account_id}),
               account_id, force_remove)

\* The keys an AccountUpdate of the model may set.
NoAccountUpdate ==
    [set_type |-> FALSE, type |-> "OTHER",
     set_linked |-> FALSE, linked_account_id |-> Null,
     set_balance |-> FALSE, current_balance |-> 0,
     billing_cutoff_day |-> Null, payment_day |-> Null]

\* handlers.py update_account (name, currency and auto_deduct are not set
\* by the requests of the model).
update_account(s, account_id, u) ==
    IF account_id \notin DOMAIN s.accounts THEN [s EXCEPT !.err = 404]
    ELSE IF ~(u.set_type \/ u.set_linked \/ u.set_balance
              \/ u.billing_cutoff_day # Null \/ u.payment_day # Null) THEN s
    ELSE
    LET acc == s.accounts[account_id]
        old_type == acc.type
        new_type == IF u.set_type THEN u.type ELSE acc.type
        new_linked0 == IF u.set_linked THEN u.linked_account_id ELSE acc.linked_account_id
        has_statements == \E k \in DOMAIN s.stmts : s.stmts[k].account_id = account_id
        linked_cards == \E c \in DOMAIN s.accounts :
                            /\ s.accounts[c].linked_account_id = account_id
                            /\ s.accounts[c].type = "CHECK_CARD"
        new_linked == IF new_type = "CREDIT_CARD" /\ new_linked0 = Null
                      THEN acc.linked_account_id
                      ELSE IF new_type \in CardTypes THEN new_linked0 ELSE Null
        linkedOk == new_linked \in DOMAIN s.accounts
                    /\ s.accounts[new_linked].type = "DEPOSIT"
        billing == IF new_type # "CREDIT_CARD" THEN Null
                   ELSE IF u.billing_cutoff_day # Null THEN u.billing_cutoff_day
                   ELSE acc.billing_cutoff_day
        payment == IF new_type # "CREDIT_CARD" THEN Null
                   ELSE IF u.payment_day # Null THEN u.payment_day
                   ELSE acc.payment_day
        force_zero_balance == new_type \in CardTypes
        a1 == [acc EXCEPT !.type = new_type, !.linked_account_id = new_linked,
                          !.billing_cutoff_day = billing, !.payment_day = payment]
        s1 == [s EXCEPT !.accounts[account_id] = a1]
        s2 == IF force_zero_balance THEN [s1 EXCEPT !.accounts[account_id].balance = 0]
              ELSE IF u.set_balance
              THEN apply_signed_delta(s1, account_id, u.current_balance - acc.balance)
              ELSE s1
        s3 == IF old_type = "CHECK_CARD" /\ new_type # "CHECK_CARD"
              THEN _resync_check_card_auto_deduct_for_account(s2, account_id, TRUE)
              ELSE IF new_type = "CHECK_CARD"
                      /\ (old_type # "CHECK_CARD" \/ acc.linked_account_id # new_linked)
              THEN _resync_check_card_auto_deduct_for_account(s2, account_id, FALSE)
              ELSE s2
    IN  IF old_type = "CREDIT_CARD" /\ new_type # "CREDIT_CARD" /\ has_statements
        THEN [s EXCEPT !.err = 400]
        ELSE IF old_type = "DEPOSIT" /\ new_type # "DEPOSIT" /\ linked_cards
        THEN [s EXCEPT !.err = 400]
        ELSE IF new_type = "CHECK_CARD" /\ new_linked # Null
                /\ (new_linked = account_id \/ ~linkedOk)
        THEN [s EXCEPT !.err = 400]
        ELSE IF new_type = "CREDIT_CARD"
                /\ (new_linked = Null \/ new_linked = account_id \/ ~linkedOk
                    \/ billing = Null \/ payment = Null)
        THEN [s EXCEPT !.err = 400]
        ELSE IF new_type \notin CardTypes
                /\ (new_linked0 # Null \/ u.billing_cutoff_day # Null
                    \/ u.payment_day # Null)
        THEN [s EXCEPT !.err = 400]
        ELSE Commit(s3)

\* --------------------------------------------- routers.py: recurring rules
\* _iter_occurrences, the stepping loops: the dates from current up to
\* window_end, step days apart.
RECURSIVE EveryDays(_, _, _)
EveryDays(current, window_end, step) ==
    IF DateLE(current, window_end)
    THEN <<current>> \o EveryDays(AddDays(current, step), window_end, step)
    ELSE <<>>

\* _iter_occurrences, MONTHLY loop: the clamped day of each month from
\* (year, month) on.
RECURSIVE EveryMonth(_, _, _, _)
EveryMonth(year, month, day, window_end) ==
    IF DateLE(_clamp_day(year, month, day), window_end)
    THEN <<_clamp_day(year, month, day)>>
         \o EveryMonth(IF month = 12 THEN year + 1 ELSE year,
                       IF month = 12 THEN 1 ELSE month + 1, day, window_end)
    ELSE <<>>

\* _iter_occurrences, YEARLY loops: the first candidate not before
\* window_start, then one per year.
RECURSIVE FirstYear(_, _, _, _)
FirstYear(year, month, day, window_start) ==
    IF DateLT(_clamp_day(year, month, day), window_start)
    THEN FirstYear(year + 1, month, day, window_start) ELSE year

RECURSIVE EveryYear(_, _, _, _)
EveryYear(year, month, day, window_end) ==
    IF DateLE(_clamp_day(year, month, day), window_end)
    THEN <<_clamp_day(year, month, day)>> \o EveryYear(year + 1, month, day, window_end)
    ELSE <<>>

\* routers.py _iter_occurrences, as the list of the dates it yields.
_iter_occurrences(rule, start, end) ==
    LET window_start == IF rule.start_date # NoDate /\ DateLT(start, rule.start_date)
                        THEN rule.start_date ELSE start
        window_end == IF rule.end_date # NoDate /\ DateLT(rule.end_date, end)
                      THEN rule.end_date ELSE end
        Weekly(weekday) ==
            EveryDays(AddDays(window_start, (weekday - Weekday(window_start)) % 7),
                      window_end, 7)
        Monthly(day) ==
            IF DateLT(_clamp_day(window_start[1], window_start[2], day), window_start)
            THEN EveryMonth(IF window_start[2] = 12 THEN window_start[1] + 1
                            ELSE window_start[1],
                            IF window_start[2] = 12 THEN 1 ELSE window_start[2] + 1,
                            day, window_end)
            ELSE EveryMonth(window_start[1], window_start[2], day, window_end)
        Yearly(anchor, day) ==
            EveryYear(FirstYear(IF window_start[1] > anchor[1] THEN window_start[1]
                                ELSE anchor[1],
                                anchor[2], day, window_start),
                      anchor[2], day, window_end)
    IN  IF DateLT(end, start) \/ DateLT(window_end, window_start) THEN <<>>
        ELSE IF rule.frequency = "DAILY" THEN EveryDays(window_start, window_end, 1)
        ELSE IF rule.frequency = "WEEKLY"
        THEN Weekly(IF rule.weekday # Null THEN rule.weekday ELSE Weekday(window_start))
        ELSE IF rule.frequency = "MONTHLY"
        THEN Monthly(IF rule.day_of_month # Null THEN rule.day_of_month
                     ELSE window_start[3])
        ELSE Yearly(IF rule.start_date # NoDate THEN rule.start_date ELSE window_start,
                    IF rule.day_of_month # Null THEN rule.day_of_month
                    ELSE IF rule.start_date # NoDate THEN rule.start_date[3]
                    ELSE window_start[3])

\* Membership in a list of dates.
InSeq(x, seq) == \E k \in 1..Len(seq) : seq[k] = x

\* The idempotency key of an occurrence: f"rule-{rule.id}-{d.isoformat()}".
RuleKey(rule_id, d) == <<"rule", rule_id, d>>

\* routers.py _signed_amount_for_rule
_signed_amount_for_rule(rule, amount) ==
    IF rule.type = "EXPENSE" THEN -Abs(amount) ELSE Abs(amount)

\* routers.py skip_recurring_occurrence
skip_recurring_occurrence(s, rule_id, occ_date) ==
    IF rule_id \notin DOMAIN s.rules THEN [s EXCEPT !.err = 404]
    ELSE IF ~InSeq(occ_date, _iter_occurrences(s.rules[rule_id], occ_date, occ_date))
    THEN [s EXCEPT !.err = 400]
    ELSE IF FindByExternalId(s, RuleKey(rule_id, occ_date)) # {}
    THEN [s EXCEPT !.err = 409]
    ELSE [s EXCEPT !.skips = @ \cup {<<rule_id, occ_date>>}]

\* routers.py unskip_recurring_occurrence
unskip_recurring_occurrence(s, rule_id, occurred_at) ==
    IF rule_id \notin DOMAIN s.rules THEN [s EXCEPT !.err = 404]
    ELSE IF <<rule_id, occurred_at>> \notin s.skips THEN [s EXCEPT !.err = 404]
    ELSE [s EXCEPT !.skips = @ \ {<<rule_id, occurred_at>>}]

\* The clock of the confirm handler (date.today()): later than every date
\* a request of the model carries.
Today == <<2024, 3, 1>>

\* The latest occurred_at among rows (max over the results of a call).
LatestOccurrence(s, ids) ==
    LET ds == {s.txns[ids[k]].occurred_at : k \in 1..Len(ids)}
    IN  CHOOSE d \in ds : \A e \in ds : DateLE(e, d)

\* The payload generate_recurring_transactions builds for an occurrence.
GeneratePayload(rule_id, rule, d) ==
    IF rule.type = "TRANSFER"
    THEN [NoValues EXCEPT
            !.type = "TRANSFER", !.account_id = rule.account_id,
            !.counter_account_id = rule.counter_account_id,
            !.amount = Abs(rule.amount), !.occurred_at = d, !.memo = rule.memo,
            !.external_id = RuleKey(rule_id, d)]
    ELSE [NoValues EXCEPT
            !.type = rule.type, !.account_id = rule.account_id,
            !.amount = _signed_amount_for_rule(rule, rule.amount),
            !.occurred_at = d, !.memo = rule.memo,
            !.external_id = RuleKey(rule_id, d)]

\* generate_recurring_transactions, the loop over the occurrences.  Every
\* create_transaction call commits, so a failure keeps the rows created
\* before it; s.ret collects the results.
RECURSIVE GenerateLoop(_, _, _, _)
GenerateLoop(s, rule_id, dates, results) ==
    IF dates = <<>> THEN [s EXCEPT !.ret = results]
    ELSE
    LET exists == FindByExternalId(s, RuleKey(rule_id, Head(dates)))
        payload == TransactionCreate(GeneratePayload(rule_id, s.rules[rule_id], Head(dates)))
        Created(r) ==
            IF r.err # 0 THEN [s EXCEPT !.err = r.err, !.ret = results]
            ELSE GenerateLoop(r, rule_id, Tail(dates), Append(results, r.ret))
    IN  IF exists # {}
        THEN GenerateLoop(s, rule_id, Tail(dates), Append(results, Max(exists)))
        ELSE IF ~validate_references(payload)
        THEN [s EXCEPT !.err = 500, !.ret = results]
        ELSE Created(create_transaction(s, payload, FALSE, FALSE))

\* routers.py generate_recurring_transactions
generate_recurring_transactions(s, rule_id, start, end) ==
    IF rule_id \notin DOMAIN s.rules THEN [s EXCEPT !.err = 404]
    ELSE IF ~s.rules[rule_id].is_active THEN [s EXCEPT !.err = 400]
    ELSE IF s.rules[rule_id].is_variable_amount THEN [s EXCEPT !.err = 400]
    ELSE IF s.rules[rule_id].amount = Null \/ s.rules[rule_id].amount <= 0
    THEN [s EXCEPT !.err = 400]
    ELSE
    LET Finish(r) ==
            IF r.err # 0 \/ r.ret = <<>> THEN r
            ELSE [r EXCEPT !.rules[rule_id].last_generated_at =
                               LatestOccurrence(r, r.ret)]
    IN  Finish(GenerateLoop(s, rule_id,
                            _iter_occurrences(s.rules[rule_id], start, end), <<>>))

\* routers.py _confirm_variable_occurrence (the model keeps no drafts, so
\* _remove_occurrence_draft deletes nothing).
_confirm_variable_occurrence(s, rule_id, occurred_at, amount) ==
    LET rule == s.rules[rule_id]
        existing == FindByExternalId(s, RuleKey(rule_id, occurred_at))
        payload == TransactionCreate([NoValues EXCEPT
                      !.type = rule.type, !.account_id = rule.account_id,
                      !.amount = _signed_amount_for_rule(rule, amount),
                      !.occurred_at = occurred_at, !.memo = rule.memo,
                      !.external_id = RuleKey(rule_id, occurred_at)])
        Watermark(r) ==
            IF r.err # 0 THEN r
            ELSE IF rule.last_generated_at = NoDate
                    \/ DateLT(rule.last_generated_at, occurred_at)
            THEN [r EXCEPT !.rules[rule_id].last_generated_at = occurred_at]
            ELSE r
    IN  IF rule.start_date # NoDate /\ DateLT(occurred_at, rule.start_date)
        THEN [s EXCEPT !.err = 400]
        ELSE IF rule.end_date # NoDate /\ DateLT(rule.end_date, occurred_at)
        THEN [s EXCEPT !.err = 400]
        ELSE IF DateLT(Today, occurred_at) THEN [s EXCEPT !.err = 400]
        ELSE IF ~InSeq(occurred_at, _iter_occurrences(rule, occurred_at, occurred_at))
        THEN [s EXCEPT !.err = 400]
        ELSE IF existing # {} THEN Watermark([s EXCEPT !.ret = Max(existing)])
        ELSE IF ~validate_references(payload) THEN [s EXCEPT !.err = 500]
        ELSE Watermark(create_transaction(s, payload, FALSE, FALSE))

\* routers.py confirm_variable_recurring_occurrence
confirm_variable_recurring_occurrence(s, rule_id, occurred_at, amount) ==
    IF rule_id \notin DOMAIN s.rules THEN [s EXCEPT !.err = 404]
    ELSE IF ~s.rules[rule_id].is_active THEN [s EXCEPT !.err = 400]
    ELSE IF ~s.rules[rule_id].is_variable_amount THEN [s EXCEPT !.err = 400]
    ELSE IF s.rules[rule_id].type = "TRANSFER" THEN [s EXCEPT !.err = 400]
    ELSE IF ~s.rules[rule_id].has_category THEN [s EXCEPT !.err = 400]
    ELSE _confirm_variable_occurrence(s, rule_id, occurred_at, amount)

\* Variant of the loop that gives up the rest of the items after a failure.
AfterFailureNone(items) == <<>>
\* confirm_variable_recurring_bulk, lines 4516-4522: a failure is caught and
\* the loop goes on with the next item.
AfterFailure(items) == Tail(items)

\* confirm_variable_recurring_bulk, lines 4506-4522: the loop over the items
\* (dates, all of one amount). A confirmed item is committed by
\* _confirm_variable_occurrence; a failed one is rolled back to the last
\* commit and its date goes to the errors.
RECURSIVE ConfirmLoop(_, _, _, _, _, _)
ConfirmLoop(s, rule_id, items, amount, confirmed, errors) ==
    IF items = <<>> THEN [s |-> s, confirmed |-> confirmed, errors |-> errors]
    ELSE LET Confirmed(r) ==
                 IF r.err = 0
                 THEN ConfirmLoop(r, rule_id, Tail(items), amount,
                                  Append(confirmed, r.ret), errors)
                 ELSE ConfirmLoop(s, rule_id, AfterFailure(items), amount,
                                  confirmed, Append(errors, Head(items)))
         IN  Confirmed(_confirm_variable_occurrence(s, rule_id, Head(items), amount))

\* routers.py confirm_variable_recurring_bulk
confirm_variable_recurring_bulk(s, rule_id, items, amount) ==
    IF rule_id \notin DOMAIN s.rules THEN [s |-> [s EXCEPT !.err = 404]]
    ELSE IF ~s.rules[rule_id].is_active THEN [s |-> [s EXCEPT !.err = 400]]
    ELSE IF ~s.rules[rule_id].is_variable_amount THEN [s |-> [s EXCEPT !.err = 400]]
    ELSE IF s.rules[rule_id].type = "TRANSFER" THEN [s |-> [s EXCEPT !.err = 400]]
    ELSE IF ~s.rules[rule_id].has_category THEN [s |-> [s EXCEPT !.err = 400]]
    ELSE ConfirmLoop(s, rule_id, items, amount, <<>>, <<>>)

\* ------------------------------------ recurring rules: create and update
\* A monthly rule on the first deposit, as RecurringRule rows are stored.
NoRule ==
    [name |-> 1, type |-> "EXPENSE", account_id |-> 1, counter_account_id |-> Null,
     amount |-> 1, is_active |-> TRUE, is_variable_amount |-> FALSE,
     has_category |-> TRUE, memo |-> 0, frequency |-> "MONTHLY",
     weekday |-> Null, day_of_month |-> 10, start_date |-> <<2024, 1, 1>>,
     end_date |-> NoDate, last_generated_at |-> NoDate]

\* An optional value of a request body: absent (set FALSE), null (none
\* TRUE) or the value v.
Unset(v) == [set |-> FALSE, none |-> TRUE, v |-> v]
None(v) == [set |-> TRUE, none |-> TRUE, v |-> v]
Value(v) == [set |-> TRUE, none |-> FALSE, v |-> v]

\* schemas.py RecurringRuleCreate: amount_finite and
\* require_amount_when_not_variable.
RecurringRuleCreate(p) ==
    /\ p.amount.none \/ p.amount.v > 0
    /\ ~p.is_variable_amount => (~p.amount.none /\ p.amount.v > 0)

\* schemas.py RecurringRuleUpdate: amount_finite and validate_amount_pair.
RecurringRuleUpdate(c) ==
    /\ c.amount.none \/ c.amount.v > 0
    /\ ~(~c.is_variable_amount.none /\ ~c.is_variable_amount.v /\ c.amount.none)

\* routers.py create_recurring_rule; the rule's id is left in s.ret.
create_recurring_rule(s, p) ==
    IF ~RecurringRuleCreate(p) THEN [s EXCEPT !.err = 422]
    ELSE IF p.type = "TRANSFER" /\ p.counter_account_id = Null
    THEN [s EXCEPT !.err = 400]
    ELSE IF p.type = "TRANSFER" /\ p.has_category THEN [s EXCEPT !.err = 400]
    ELSE IF p.type = "TRANSFER" /\ p.is_variable_amount THEN [s EXCEPT !.err = 400]
    ELSE IF p.type # "TRANSFER" /\ p.amount.none /\ ~p.is_variable_amount
    THEN [s EXCEPT !.err = 400]
    ELSE LET existing == {i \in DOMAIN s.rules : s.rules[i].name = p.name}
         IN  IF existing # {}
             THEN [s EXCEPT !.ret = CHOOSE i \in existing : \A j \in existing : i <= j]
             ELSE LET id == NextId(s.rules)
                  IN  [s EXCEPT
                         !.rules = Extend(s.rules, id,
                            [NoRule EXCEPT
                               !.name = p.name, !.type = p.type,
                               !.account_id = p.account_id,
                               !.counter_account_id = p.counter_account_id,
                               !.amount = IF p.amount.none THEN Null ELSE p.amount.v,
                               !.is_variable_amount = p.is_variable_amount,
                               !.has_category = p.type \in {"INCOME", "EXPENSE"}
                                                \/ p.has_category]),
                         !.ret = id]

\* Variant of the update check that accepts every change.
ValidateRecurringUpdateNone(rule, changes) == TRUE

\* routers.py _validate_recurring_update: whether the changes may be applied.
_validate_recurring_update(rule, changes) ==
    LET resulting_counter == IF changes.counter_account_id.set
                             THEN (IF changes.counter_account_id.none THEN Null
                                   ELSE changes.counter_account_id.v)
                             ELSE rule.counter_account_id
        effective_variable == IF changes.is_variable_amount.set
                              THEN ~changes.is_variable_amount.none
                                   /\ changes.is_variable_amount.v
                              ELSE rule.is_variable_amount
        effective_amount == IF changes.amount.set
                            THEN (IF changes.amount.none THEN Null ELSE changes.amount.v)
                            ELSE rule.amount
    IN  /\ IF rule.type = "TRANSFER"
           THEN resulting_counter # Null /\ ~rule.has_category
           ELSE ~(/\ changes.counter_account_id.set
                  /\ ~changes.counter_account_id.none
                  /\ changes.counter_account_id.v # rule.counter_account_id)
        /\ IF effective_variable THEN rule.type # "TRANSFER"
           ELSE effective_amount # Null /\ effective_amount > 0

\* routers.py update_recurring_rule. The rule's counter_account_id is a
\* read-only hybrid property and is_variable_amount is a NOT NULL column:
\* setting the one or nulling the other fails the request after validation.
update_recurring_rule(s, rule_id, changes) ==
    IF rule_id \notin DOMAIN s.rules THEN [s EXCEPT !.err = 404]
    ELSE IF ~RecurringRuleUpdate(changes) THEN [s EXCEPT !.err = 422]
    ELSE IF ~changes.amount.set /\ ~changes.is_variable_amount.set
            /\ ~changes.counter_account_id.set
    THEN [s EXCEPT !.ret = rule_id]
    ELSE IF ~_validate_recurring_update(s.rules[rule_id], changes)
    THEN [s EXCEPT !.err = 400]
    ELSE IF changes.counter_account_id.set THEN [s EXCEPT !.err = 500]
    ELSE IF changes.is_variable_amount.set /\ changes.is_variable_amount.none
    THEN [s EXCEPT !.err = 500]
    ELSE [s EXCEPT
            !.rules[rule_id] =
               [@ EXCEPT
                  !.has_category = @ \/ s.rules[rule_id].type \in {"INCOME", "EXPENSE"},
                  !.amount = IF changes.amount.set
                             THEN (IF changes.amount.none THEN Null ELSE changes.amount.v)
                             ELSE @,
                  !.is_variable_amount = IF changes.is_variable_amount.set
                                         THEN changes.is_variable_amount.v ELSE @],
            !.ret = rule_id]

\* ------------------------------ services/transaction_bulk_service.py
\* TransactionBalanceService.revert_signed_transfer
revert_signed_transfer(s, source_account_id, counter_account_id, signed_amount) ==
    IF signed_amount = 0 THEN s
    ELSE IF signed_amount < 0
    THEN revert_single_transfer_effect(s, source_account_id, counter_account_id,
                                       Abs(signed_amount))
    ELSE revert_single_transfer_effect(s, counter_account_id, source_account_id,
                                       Abs(signed_amount))

\* utils/normalization.py normalize_account_ref: "id:N", "name:token" or "".
\* Account names are atoms of the model, their token is the atom.
normalize_account_ref(account_id, account_name) ==
    IF account_id # Null THEN <<"id", account_id>>
    ELSE IF account_name # Null THEN <<"name", account_name>>
    ELSE <<>>

\* _apply_db_transfer_matches, the defaults of its tolerances.
amount_tolerance == 2
time_tolerance_seconds == 60

\* _apply_db_transfer_matches._time_close; times are seconds of the day.
_time_close(a, b) ==
    a = Null \/ b = Null \/ Abs(a - b) <= time_tolerance_seconds

\* _apply_db_transfer_matches._is_match
_is_match(new, existing) ==
    LET new_from == normalize_account_ref(new.from_account_id, new.from_account_name)
        new_to == normalize_account_ref(new.to_account_id, new.to_account_name)
        new_account == IF new_from # <<>> THEN new_from ELSE new_to
        new_counter == IF new_from # <<>> THEN new_to ELSE new_from
        ex_from == IF existing.from_account_id # Null
                   THEN normalize_account_ref(existing.from_account_id, Null)
                   ELSE normalize_account_ref(AccountIdOf(existing), Null)
        ex_to == IF existing.to_account_id # Null
                 THEN normalize_account_ref(existing.to_account_id, Null)
                 ELSE normalize_account_ref(CounterAccountIdOf(existing), Null)
        ex_account == IF ex_from # <<>> THEN ex_from ELSE ex_to
        ex_counter == IF ex_from # <<>> THEN ex_to ELSE ex_from
        strong == \/ new_counter # <<>> /\ new_counter = ex_account
                  \/ ex_counter # <<>> /\ ex_counter = new_account
        weak == /\ new_counter = <<>> /\ ex_counter = <<>>
                /\ new_account # <<>> /\ ex_account # <<>>
                /\ new_account # ex_account
    IN  /\ new.amount # 0
        /\ ~(new.amount > 0 /\ existing.amount > 0)
        /\ ~(new.amount < 0 /\ existing.amount < 0)
        /\ Abs(Abs(new.amount) - Abs(existing.amount)) <= amount_tolerance
        /\ _time_close(new.occurred_time, existing.occurred_time)
        /\ (strong \/ weak)

\* ------------------------------ services/transfer_pairing_service.py
\* TransferPairingService.__init__: the default of the amount tolerance.
tolerance == 2

\* model_dump() of a TransactionCreate: its fields and its computed legacy
\* fields, every key present.
model_dump(p) ==
    [NoValues EXCEPT
       !.type = p.type,
       !.account_id = PayloadAccountId(p),
       !.counter_account_id = PayloadCounterAccountId(p),
       !.has_from = TRUE, !.from_account_id = p.from_account_id,
       !.has_to = TRUE, !.to_account_id = p.to_account_id,
       !.account_name = PayloadAccountName(p),
       !.counter_account_name = PayloadCounterAccountName(p),
       !.from_account_name = p.from_account_name,
       !.to_account_name = p.to_account_name,
       !.amount = p.amount, !.external_id = p.external_id,
       !.transfer_flow = p.transfer_flow,
       !.exclude_from_reports = p.exclude_from_reports,
       !.is_balance_neutral = p.is_balance_neutral,
       !.occurred_at = p.occurred_at, !.occurred_time = p.occurred_time,
       !.memo = p.memo, !.payee_id = p.payee_id]

\* The order of two account references as Python orders the strings
\* "", "id:N" and "name:token" (ids and tokens of the model are one digit).
RefLE(a, b) ==
    IF a = <<>> THEN TRUE
    ELSE IF b = <<>> THEN FALSE
    ELSE IF a[1] # b[1] THEN a[1] = "id"
    ELSE a[2] <= b[2]

\* TransferPairingService._decide_pair_direction: <<outgoing, incoming>>.
_decide_pair_direction(first, second) ==
    LET first_account == normalize_account_ref(PayloadAccountId(first),
                                               PayloadAccountName(first))
        second_account == normalize_account_ref(PayloadAccountId(second),
                                                PayloadAccountName(second))
        first_counter == normalize_account_ref(PayloadCounterAccountId(first),
                                               PayloadCounterAccountName(first))
        second_counter == normalize_account_ref(PayloadCounterAccountId(second),
                                                PayloadCounterAccountName(second))
    IN  IF first.amount < 0 /\ second.amount > 0 THEN <<first, second>>
        ELSE IF second.amount < 0 /\ first.amount > 0 THEN <<second, first>>
        ELSE IF first.transfer_flow = "OUT" /\ second.transfer_flow = "IN"
        THEN <<first, second>>
        ELSE IF second.transfer_flow = "OUT" /\ first.transfer_flow = "IN"
        THEN <<second, first>>
        ELSE IF first.transfer_flow = "OUT" /\ second.transfer_flow # "OUT"
        THEN <<first, second>>
        ELSE IF second.transfer_flow = "OUT" /\ first.transfer_flow # "OUT"
        THEN <<second, first>>
        ELSE IF first.transfer_flow = "IN" /\ second.transfer_flow # "IN"
        THEN <<second, first>>
        ELSE IF second.transfer_flow = "IN" /\ first.transfer_flow # "IN"
        THEN <<first, second>>
        ELSE IF first_counter # <<>> /\ first_counter = second_account
        THEN <<first, second>>
        ELSE IF second_counter # <<>> /\ second_counter = first_account
        THEN <<second, first>>
        ELSE IF first_counter # <<>> /\ second_counter = <<>> THEN <<first, second>>
        ELSE IF second_counter # <<>> /\ first_counter = <<>> THEN <<second, first>>
        ELSE IF RefLE(first_account, second_account) THEN <<first, second>>
        ELSE <<second, first>>

\* _build_pair.find_counter_id: an account id of the candidate that is not
\* the source account.
find_counter_id(candidate, source_account_key) ==
    IF PayloadAccountId(candidate) # Null
       /\ normalize_account_ref(PayloadAccountId(candidate), Null) # source_account_key
    THEN PayloadAccountId(candidate)
    ELSE IF PayloadCounterAccountId(candidate) # Null
            /\ normalize_account_ref(PayloadCounterAccountId(candidate), Null)
                 # source_account_key
    THEN PayloadCounterAccountId(candidate)
    ELSE Null

\* _build_pair.find_counter_name: an account name of the candidate whose
\* token is not the token of the source's name.
find_counter_name(candidate, source_name) ==
    IF PayloadAccountName(candidate) # Null
       /\ PayloadAccountName(candidate) # source_name
    THEN PayloadAccountName(candidate)
    ELSE IF PayloadCounterAccountName(candidate) # Null
            /\ PayloadCounterAccountName(candidate) # source_name
    THEN PayloadCounterAccountName(candidate)
    ELSE Null

\* _build_pair, line 363: the name made up for the counter side out of the
\* source's name, a name no account of the model carries.
CounterpartName(account_name) == 100 + account_name

\* Python's "or" over the values of the model, where Null is falsy.
Or(a, b) == IF a # Null THEN a ELSE b

\* TransferPairingService._build_pair: the combined entry, and whether its
\* construction passed validation (it raises otherwise).
_build_pair(out_entry, in_entry) ==
    LET source_account_key == normalize_account_ref(PayloadAccountId(out_entry),
                                                    PayloadAccountName(out_entry))
        counter_name(base) ==
            Or(find_counter_name(in_entry, base.account_name),
               Or(find_counter_name(out_entry, base.account_name),
                  Or(PayloadCounterAccountName(out_entry),
                     CounterpartName(base.account_name))))
        Checked(combined) == [ok |-> validate_references(combined), combined |-> combined]
        Combined(base1) ==
            Checked(TransactionCreate([base1 EXCEPT
                !.memo = IF @ = 0 /\ in_entry.memo # 0 THEN in_entry.memo ELSE @,
                !.transfer_flow = "OUT"]))
        Countered(base, counter_id) ==
            Combined(IF counter_id # Null
                     THEN [base EXCEPT !.counter_account_id = counter_id,
                                       !.counter_account_name = Null]
                     ELSE [base EXCEPT !.counter_account_name = counter_name(base)])
    IN  Countered([model_dump(out_entry) EXCEPT !.amount = -Abs(@)],
                  Or(find_counter_id(in_entry, source_account_key),
                     find_counter_id(out_entry, source_account_key)))

\* TransferPairingService._pair_two_entries
_pair_two_entries(entries) ==
    LET Result(built) ==
            IF built.ok
            THEN [pairs |-> <<[item |-> built.combined, auto_match |-> TRUE]>>,
                  leftovers |-> <<>>]
            ELSE [pairs |-> <<>>, leftovers |-> entries]
        Directed(pair) == Result(_build_pair(pair[1], pair[2]))
    IN  Directed(_decide_pair_direction(entries[1], entries[2]))

\* TransferPairingService._classify_by_direction
_classify_by_direction(entries) ==
    [outs |-> SelectSeq(entries, LAMBDA e : e.transfer_flow = "OUT"),
     ins |-> SelectSeq(entries, LAMBDA e : e.transfer_flow = "IN"),
     unknowns |-> SelectSeq(entries, LAMBDA e : e.transfer_flow \notin {"OUT", "IN"})]

\* TransferPairingService._distribute_unknowns
RECURSIVE _distribute_unknowns(_, _, _)
_distribute_unknowns(outs, ins, unknowns) ==
    IF unknowns = <<>> THEN [outs |-> outs, ins |-> ins]
    ELSE LET entry == Head(unknowns)
             counter_hint == normalize_account_ref(PayloadCounterAccountId(entry),
                                                   PayloadCounterAccountName(entry))
             account_hint == normalize_account_ref(PayloadAccountId(entry),
                                                   PayloadAccountName(entry))
         IN  IF counter_hint # <<>> /\ account_hint = <<>>
             THEN _distribute_unknowns(outs, Append(ins, entry), Tail(unknowns))
             ELSE IF account_hint # <<>> /\ counter_hint = <<>>
             THEN _distribute_unknowns(Append(outs, entry), ins, Tail(unknowns))
             ELSE IF Len(outs) <= Len(ins)
             THEN _distribute_unknowns(Append(outs, entry), ins, Tail(unknowns))
             ELSE _distribute_unknowns(outs, Append(ins, entry), Tail(unknowns))

\* The first of a set of list indices, Null when the set is empty.
FirstIndex(S) ==
    IF S = {} THEN Null ELSE CHOOSE k \in S : \A j \in S : k <= j

\* TransferPairingService._select_in_match: the index (from 1) of the
\* incoming entry chosen for out_entry, Null when the pool is empty.
_select_in_match(out_entry, ins_pool) ==
    LET target_counter == normalize_account_ref(PayloadCounterAccountId(out_entry),
                                                PayloadCounterAccountName(out_entry))
        source_key == normalize_account_ref(PayloadAccountId(out_entry),
                                            PayloadAccountName(out_entry))
        AccountKey(c) == normalize_account_ref(PayloadAccountId(c), PayloadAccountName(c))
        CounterKey(c) == normalize_account_ref(PayloadCounterAccountId(c),
                                               PayloadCounterAccountName(c))
        byAccount == FirstIndex({k \in 1..Len(ins_pool) : AccountKey(ins_pool[k]) = target_counter})
        byMutual == FirstIndex({k \in 1..Len(ins_pool) : CounterKey(ins_pool[k]) = source_key})
        byCounter == FirstIndex({k \in 1..Len(ins_pool) : CounterKey(ins_pool[k]) = target_counter})
    IN  IF ins_pool = <<>> THEN Null
        ELSE IF target_counter # <<>> /\ byAccount # Null THEN byAccount
        ELSE IF source_key # <<>> /\ byMutual # Null THEN byMutual
        ELSE IF target_counter # <<>> /\ byCounter # Null THEN byCounter
        ELSE 1

\* Variant of the pop that leaves the pool as it is.
RemoveAtNone(seq, idx) == seq
\* list.pop(idx), the list that remains.
RemoveAt(seq, idx) ==
    [k \in 1..(Len(seq) - 1) |-> IF k < idx THEN seq[k] ELSE seq[k + 1]]

\* TransferPairingService._match_outs_to_ins
RECURSIVE MatchLoop(_, _, _, _)
MatchLoop(outs, ins_pool, pairs, leftovers) ==
    IF outs = <<>> THEN [pairs |-> pairs, leftovers |-> leftovers \o ins_pool]
    ELSE LET out_entry == Head(outs)
             Built(built, match_idx, in_entry) ==
                 IF built.ok
                 THEN MatchLoop(Tail(outs), RemoveAt(ins_pool, match_idx),
                          Append(pairs, [item |-> built.combined,
                                         auto_match |-> TRUE]),
                          leftovers)
                 ELSE MatchLoop(Tail(outs), RemoveAt(ins_pool, match_idx), pairs,
                          leftovers \o <<out_entry, in_entry>>)
             Matched(match_idx) ==
                 IF match_idx = Null
                 THEN MatchLoop(Tail(outs), ins_pool, pairs, Append(leftovers, out_entry))
                 ELSE Built(_build_pair(out_entry, ins_pool[match_idx]), match_idx,
                            ins_pool[match_idx])
         IN  Matched(_select_in_match(out_entry, ins_pool))
_match_outs_to_ins(outs, ins) == MatchLoop(outs, ins, <<>>, <<>>)

\* TransferPairingService._fallback_pairing
RECURSIVE FallbackLoop(_, _, _)
FallbackLoop(unprocessed, pairs, remaining) ==
    IF Len(unprocessed) < 2
    THEN [pairs |-> pairs, leftovers |-> remaining \o unprocessed]
    ELSE LET a == unprocessed[1]
             b == unprocessed[2]
             Built(built) ==
                 IF built.ok
                 THEN FallbackLoop(Tail(Tail(unprocessed)),
                          Append(pairs, [item |-> built.combined, auto_match |-> TRUE]),
                          remaining)
                 ELSE FallbackLoop(Tail(Tail(unprocessed)), pairs,
                                   remaining \o <<a, b>>)
             Directed(dir) == Built(_build_pair(dir[1], dir[2]))
         IN  Directed(_decide_pair_direction(a, b))
_fallback_pairing(leftovers) == FallbackLoop(leftovers, <<>>, <<>>)

\* TransferPairingService.pair_transfers
pair_transfers(entries) ==
    IF entries = <<>> THEN [pairs |-> <<>>, leftovers |-> <<>>]
    ELSE IF Len(entries) = 2 THEN _pair_two_entries(entries)
    ELSE LET Matched(m) ==
                 IF m.pairs = <<>> /\ Len(m.leftovers) >= 2
                 THEN _fallback_pairing(m.leftovers)
                 ELSE m
             Distributed(d) == Matched(_match_outs_to_ins(d.outs, d.ins))
             Classified(c) == Distributed(_distribute_unknowns(c.outs, c.ins, c.unknowns))
         IN  Classified(_classify_by_direction(entries))

\* Variant of the tolerance check that lets every amount pass.
WithinToleranceAlways(amount_a, amount_b) == TRUE
\* _find_best_match, lines 405-407: the tolerance check on absolute amounts.
WithinTolerance(amount_a, amount_b) == Abs(amount_a - amount_b) <= tolerance

\* _find_best_match, lines 409-421: the score of a candidate partner.
MatchScore(entry_a, entry_b) ==
    (IF \/ entry_a.amount < 0 /\ entry_b.amount > 0
        \/ entry_a.amount > 0 /\ entry_b.amount < 0 THEN 1 ELSE 0)
    + (IF entry_a.transfer_flow = "OUT" /\ entry_b.transfer_flow = "IN" THEN 1 ELSE 0)
    + (IF entry_a.transfer_flow = "IN" /\ entry_b.transfer_flow = "OUT" THEN 1 ELSE 0)

\* TransferPairingService._find_best_match: the first index of the highest
\* score among the free entries within tolerance, Null when there is none.
_find_best_match(entry_a, pool, used, skip_idx) ==
    LET cand == {j \in 1..Len(pool) :
                   /\ ~used[j] /\ j # skip_idx
                   /\ WithinTolerance(Abs(entry_a.amount), Abs(pool[j].amount))}
    IN  IF cand = {} THEN Null
        ELSE CHOOSE j \in cand :
               \A k \in cand :
                  \/ MatchScore(entry_a, pool[k]) < MatchScore(entry_a, pool[j])
                  \/ MatchScore(entry_a, pool[k]) = MatchScore(entry_a, pool[j]) /\ j <= k

\* sorted(entries, key=abs(amount)): a stable sort.
RECURSIVE SortedByAbsAmount(_)
SortedByAbsAmount(entries) ==
    IF entries = <<>> THEN <<>>
    ELSE LET k == CHOOSE i \in 1..Len(entries) :
                    \A j \in 1..Len(entries) :
                       \/ Abs(entries[i].amount) < Abs(entries[j].amount)
                       \/ Abs(entries[i].amount) = Abs(entries[j].amount) /\ i <= j
         IN  <<entries[k]>> \o SortedByAbsAmount(
                 [j \in 1..(Len(entries) - 1) |->
                     IF j < k THEN entries[j] ELSE entries[j + 1]])

\* pair_transfers_with_tolerance, lines 94-119: the loop from index i on.
RECURSIVE PairLoop(_, _, _, _, _)
PairLoop(pool, i, used, pairs, leftovers) ==
    IF i > Len(pool) THEN [used |-> used, pairs |-> pairs, leftovers |-> leftovers]
    ELSE IF used[i] THEN PairLoop(pool, i + 1, used, pairs, leftovers)
    ELSE LET Built(built, best_match_idx, used1) ==
                 IF built.ok
                 THEN PairLoop(pool, i + 1, used1,
                          Append(pairs, [item |-> built.combined,
                                         auto_match |-> TRUE]),
                          leftovers)
                 ELSE PairLoop(pool, i + 1, used1, pairs,
                          leftovers \o <<pool[i], pool[best_match_idx]>>)
             Directed(dir, best_match_idx) ==
                 Built(_build_pair(dir[1], dir[2]), best_match_idx,
                       [used EXCEPT ![i] = TRUE, ![best_match_idx] = TRUE])
             Matched(best_match_idx) ==
                 IF best_match_idx = Null
                 THEN PairLoop(pool, i + 1, used, pairs, Append(leftovers, pool[i]))
                 ELSE Directed(_decide_pair_direction(pool[i], pool[best_match_idx]),
                               best_match_idx)
         IN  Matched(_find_best_match(pool[i], pool, used, i))

\* pair_transfers_with_tolerance, lines 121-124: the entries still free that
\* equal no leftover are appended.
RECURSIVE AppendUnused(_, _, _, _)
AppendUnused(pool, used, idx, leftovers) ==
    IF idx > Len(pool) THEN leftovers
    ELSE AppendUnused(pool, used, idx + 1,
             IF ~used[idx] /\ ~(\E k \in 1..Len(leftovers) : leftovers[k] = pool[idx])
             THEN Append(leftovers, pool[idx]) ELSE leftovers)

\* TransferPairingService.pair_transfers_with_tolerance
pair_transfers_with_tolerance(entries) ==
    IF entries = <<>> THEN [pairs |-> <<>>, leftovers |-> <<>>]
    ELSE LET Collected(pool, r) ==
                 [pairs |-> r.pairs,
                  leftovers |-> AppendUnused(pool, r.used, 1, r.leftovers)]
             Sorted(pool) ==
                 Collected(pool, PairLoop(pool, 1, [j \in 1..Len(pool) |-> FALSE],
                                          <<>>, <<>>))
         IN  Sorted(SortedByAbsAmount(entries))

\* ------------------- services/transaction_bulk_service.py: bulk_create
\* _pair_transfers, lines 144-147: the key of a bucket is the date and time.
SameBucket(e, f) ==
    e.occurred_at = f.occurred_at /\ e.occurred_time = f.occurred_time

\* _pair_transfers, lines 163-169: the pairs of a bucket, then its leftovers
\* with the auto-match flag off.
AsItems(r) ==
    r.pairs \o [k \in 1..Len(r.leftovers) |->
                  [item |-> r.leftovers[k], auto_match |-> FALSE]]

\* _pair_transfers, lines 158-169: the TRANSFER entries bucket by bucket, in
\* the order the buckets were opened.
RECURSIVE PairBuckets(_)
PairBuckets(transfers) ==
    IF transfers = <<>> THEN <<>>
    ELSE AsItems(pair_transfers_with_tolerance(
                     SelectSeq(transfers, LAMBDA e : SameBucket(e, Head(transfers)))))
         \o PairBuckets(SelectSeq(transfers, LAMBDA e : ~SameBucket(e, Head(transfers))))

\* TransactionBulkService._pair_transfers: the entries that are no TRANSFER
\* pass through unpaired, as (entry, auto-match) with the flag off; the
\* TRANSFER entries follow, paired within their buckets.
_pair_transfers(normalized) ==
    LET others == SelectSeq(normalized, LAMBDA item : item.type # "TRANSFER")
    IN  [k \in 1..Len(others) |-> [item |-> others[k], auto_match |-> FALSE]]
        \o PairBuckets(SelectSeq(normalized, LAMBDA item : item.type = "TRANSFER"))

\* _apply_db_transfer_matches, lines 303-308: a stored row of the same date
\* matches the entry.
DbMatchFound(s, item) ==
    \E i \in DOMAIN s.txns :
        /\ s.txns[i].type \in {"TRANSFER", "INCOME", "EXPENSE"}
        /\ s.txns[i].occurred_at = item.occurred_at
        /\ _is_match(item, s.txns[i])

\* _apply_db_transfer_matches: a transfer-like entry that is no auto-match
\* and matches a stored row is dropped.
_apply_db_transfer_matches(s, items_to_create) ==
    SelectSeq(items_to_create,
              LAMBDA e : ~(/\ (e.item.type = "TRANSFER" \/ e.item.transfer_flow # "")
                           /\ ~e.auto_match
                           /\ DbMatchFound(s, e.item)))

\* The external ids a list of entries carries.
ExternalIds(items) == {items[k].external_id : k \in 1..Len(items)} \ {NoExt}

\* _handle_override, lines 504-526: revert and delete the collected rows.
OverrideRevert(s, t) ==
    IF _is_effectively_neutral_txn(t) THEN s
    ELSE IF t.type = "TRANSFER" /\ t.is_auto_transfer_match
            /\ (t.to_account_id # Null \/ t.from_account_id # Null)
    THEN revert_signed_transfer(s, t.from_account_id, t.to_account_id, t.amount)
    ELSE IF t.from_account_id # Null
    THEN apply_signed_delta(s, t.from_account_id, -t.amount)
    ELSE apply_signed_delta(s, t.to_account_id, -t.amount)

RECURSIVE OverrideLoop(_, _)
OverrideLoop(s, ids) ==
    IF ids = <<>> THEN s
    ELSE LET s1 == _sync_check_card_auto_deduct(s, Head(ids), Null, TRUE)
             s2 == OverrideRevert(s1, Obj(s1, Head(ids)))
         IN  OverrideLoop(DeleteTxn(s2, Head(ids)), Tail(ids))

\* _handle_override, lines 491-501: the rows carrying an external id of the
\* batch, each followed by the rows of its transfer group, in dict order.
RECURSIVE OverrideTargets(_, _, _)
OverrideTargets(s, existing, acc) ==
    IF existing = <<>> THEN acc
    ELSE
    LET i == Head(existing)
        siblings == IF s.txns[i].group_id = Null THEN {}
                    ELSE {j \in DOMAIN s.txns : s.txns[j].group_id = s.txns[i].group_id}
        seen == {acc[k] : k \in 1..Len(acc)}
        added == (IF i \in seen THEN <<>> ELSE <<i>>)
                 \o SortedSeq(siblings \ (seen \cup {i}))
    IN  OverrideTargets(s, Tail(existing), acc \o added)

\* TransactionBulkService._handle_override (it flushes, it does not commit)
_handle_override(s, normalized) ==
    LET ext_ids == ExternalIds(normalized)
        existing == {i \in DOMAIN s.txns : s.txns[i].external_id \in ext_ids}
    IN  OverrideLoop(s, OverrideTargets(s, SortedSeq(existing), <<>>))

\* TransactionBulkService._filter_existing_by_external_id: the entries whose
\* external id is not stored yet.
_filter_existing_by_external_id(s, items_to_create) ==
    SelectSeq(items_to_create,
              LAMBDA e : FindByExternalId(s, e.item.external_id) = {})

\* _filter_existing_by_external_id, lines 354-361: the stored rows carrying
\* an external id of the entries, returned to the caller.
ExistingByExternalId(s, items_to_create) ==
    LET ext_ids == {items_to_create[k].item.external_id :
                       k \in 1..Len(items_to_create)} \ {NoExt}
    IN  SortedSeq({i \in DOMAIN s.txns : s.txns[i].external_id \in ext_ids})

\* _filter_natural_duplicates, lines 430-459: the stored row an importer
\* entry duplicates, if any.
NaturalDuplicate(s, item) ==
    LET by_id == IF item.from_account_id # Null THEN item.from_account_id
                 ELSE item.to_account_id
        Named(name) == {a \in DOMAIN s.accounts : s.accounts[a].name = name}
        by_from == IF by_id = Null /\ item.from_account_name # Null
                      /\ Named(item.from_account_name) # {}
                   THEN Max(Named(item.from_account_name)) ELSE by_id
        account_id == IF by_from = Null /\ item.from_account_name = Null
                         /\ item.to_account_name # Null
                         /\ Named(item.to_account_name) # {}
                      THEN Max(Named(item.to_account_name)) ELSE by_from
    IN  /\ item.external_id[1] = "banksalad"
        /\ account_id # Null
        /\ \E i \in DOMAIN s.txns :
             /\ s.txns[i].type = item.type
             /\ s.txns[i].occurred_at = item.occurred_at
             /\ account_id \in {s.txns[i].from_account_id, s.txns[i].to_account_id}
             /\ item.occurred_time # Null => s.txns[i].occurred_time = item.occurred_time
             /\ s.txns[i].amount \in {item.amount, -item.amount}

\* TransactionBulkService._filter_natural_duplicates
_filter_natural_duplicates(s, items_to_create) ==
    SelectSeq(items_to_create, LAMBDA e : ~NaturalDuplicate(s, e.item))

\* TransactionBulkService._create_transactions.  create_transaction commits
\* row by row: work is the session, committed what the database holds, and
\* a failure leaves the database at the last commit.
RECURSIVE _create_transactions(_, _, _, _)
_create_transactions(work, committed, items_to_create, created) ==
    IF items_to_create = <<>> THEN [committed EXCEPT !.ret = created]
    ELSE
    LET item == Head(items_to_create).item
        balance_neutral == /\ item.type = "TRANSFER"
                           /\ PayloadCounterAccountId(item) = Null
                           /\ PayloadCounterAccountName(item) = Null
        stored == FindByExternalId(work, item.external_id) # {}
        Next1(r) ==
            IF r.err # 0 THEN [committed EXCEPT !.err = r.err, !.ret = <<>>]
            ELSE _create_transactions(r, IF stored THEN committed ELSE r,
                                      Tail(items_to_create), Append(created, r.ret))
    IN  Next1(create_transaction(work, item, balance_neutral,
                                 Head(items_to_create).auto_match))

\* bulk_create, lines 69-107, from the paired entries on: the match against
\* the stored rows, the override, the filters and the creation.  The entries
\* of the model are no settlements, so _filter_settlement_duplicates keeps
\* them all.
CreatePaired(s, items, override, paired) ==
    LET matched == _apply_db_transfer_matches(s, paired)
        Create(s1, existing_txns) ==
            LET Done(r) ==
                    IF r.err # 0 THEN r
                    ELSE [r EXCEPT !.ret = [rows |-> existing_txns \o r.ret,
                                            created |-> r.ret,
                                            db_transfer_matches |->
                                                Len(paired) - Len(matched)]]
            IN  Done(_create_transactions(
                        s1, s,
                        _filter_natural_duplicates(
                            s1, _filter_existing_by_external_id(s1, matched)),
                        <<>>))
        Overridden(s1) == Create(s1, ExistingByExternalId(s1, matched))
    IN  Overridden(IF override THEN _handle_override(s, items) ELSE s)

\* TransactionBulkService.bulk_create.  s.ret holds the rows returned, among
\* them the rows created, and the number of entries dropped as matches of
\* stored rows.
bulk_create(s, items, override) ==
    IF items = <<>>
    THEN [s EXCEPT !.ret = [rows |-> <<>>, created |-> <<>>,
                            db_transfer_matches |-> 0]]
    ELSE CreatePaired(s, items, override, _pair_transfers(items))

\* routers.py bulk_upsert_transactions (the user exists; the match preview
\* find_potential_transfer_matches only reads).
bulk_upsert_transactions(s, items, override) == bulk_create(s, items, override)

\* ================================================================== state
VARIABLES
    accounts,   \* account id -> [name, type, balance, linked_account_id, ...]
    txns,       \* transaction id -> row
    stmts,      \* statement id -> credit-card statement
    groups,     \* ids of the transfergroup rows
    rules,      \* recurring rule id -> rule
    skips,      \* the recurring occurrence skips: <<rule id, date>>
    last        \* the last request: [op, arg, code] and, of a handler that
                \* answers with a list of rows, ret (the rows) and new (those
                \* of them the call created)

vars == <<accounts, txns, stmts, groups, rules, skips, last>>

\* The session a request handler starts with.
Session ==
    [accounts |-> accounts, txns |-> txns, stmts |-> stmts, groups |-> groups,
     rules |-> rules, skips |-> skips, gone |-> <<>>, err |-> 0, ret |-> Null]

\* Dates the requests of the model carry: two billing windows of the card.
Jan10 == <<2024, 1, 10>>
Feb20 == <<2024, 2, 20>>

\* The accounts registered before the first request: two deposits, a check
\* card and a credit card, both cards linked to the first deposit.
InitAccounts ==
    <<[name |-> 1, type |-> "DEPOSIT", balance |-> 0, linked_account_id |-> Null,
       billing_cutoff_day |-> Null, payment_day |-> Null],
      [name |-> 2, type |-> "DEPOSIT", balance |-> 0, linked_account_id |-> Null,
       billing_cutoff_day |-> Null, payment_day |-> Null],
      [name |-> 3, type |-> "CHECK_CARD", balance |-> 0, linked_account_id |-> 1,
       billing_cutoff_day |-> Null, payment_day |-> Null],
      [name |-> 4, type |-> "CREDIT_CARD", balance |-> 0, linked_account_id |-> 1,
       billing_cutoff_day |-> 15, payment_day |-> 25]>>

\* The rules registered before the first request: a fixed monthly expense,
\* a variable income due on the last day of the month, a fixed monthly
\* transfer between the deposits.
InitRules ==
    <<NoRule,
      [NoRule EXCEPT !.name = 2, !.type = "INCOME", !.account_id = 2,
                     !.amount = Null,
                     !.is_variable_amount = TRUE, !.day_of_month = 31],
      [NoRule EXCEPT !.name = 3, !.type = "TRANSFER", !.counter_account_id = 2,
                     !.has_category = FALSE]>>

Init ==
    /\ accounts = InitAccounts
    /\ txns = <<>>
    /\ stmts = <<>>
    /\ groups = {}
    /\ rules = InitRules
    /\ skips = {}
    /\ last = [op |-> "init", arg |-> 0, code |-> 0, ret |-> <<>>, new |-> {},
               stats |-> 0, errors |-> <<>>]

\* The part of the state space the checks explore.
WithinBounds(r) ==
    /\ \A i \in DOMAIN r.txns : i <= MaxTxnId /\ Abs(r.txns[i].amount) <= MaxAmount
    /\ \A k \in DOMAIN r.stmts : k <= MaxStmtId
    /\ \A g \in r.groups : g <= MaxTxnId
    /\ \A a \in DOMAIN r.accounts : Abs(r.accounts[a].balance) <= MaxBalance

\* What a request leaves in the database: the session r.
Store(r) ==
    /\ accounts' = r.accounts
    /\ txns' = r.txns
    /\ stmts' = r.stmts
    /\ groups' = r.groups
    /\ rules' = r.rules
    /\ skips' = r.skips

\* The response: a successful handler's session is committed, a failed one
\* is rolled back.
Respond(op, arg, r) ==
    /\ r.err # 0 \/ WithinBounds(r)
    /\ last' = [op |-> op, arg |-> arg, code |-> IF r.err = 0 THEN 200 ELSE r.err,
                ret |-> <<>>, new |-> {}, stats |-> 0, errors |-> <<>>]
    /\ IF r.err = 0 THEN Store(r)
       ELSE UNCHANGED <<accounts, txns, stmts, groups, rules, skips>>

\* The response of a handler that commits row by row: what it committed
\* before a failure stays; the response lists the rows ret, of which the
\* call created the rows new.
RespondCommitted(op, arg, r, ret, new, stats) ==
    /\ WithinBounds(r)
    /\ last' = [op |-> op, arg |-> arg, code |-> IF r.err = 0 THEN 200 ELSE r.err,
                ret |-> IF r.err = 0 THEN ret ELSE <<>>,
                new |-> IF r.err = 0 THEN new ELSE {},
                stats |-> IF r.err = 0 THEN stats ELSE 0,
                errors |-> <<>>]
    /\ Store(r)

\* The rows of a list.
Rows(seq) == {seq[k] : k \in 1..Len(seq)}

\* POST /transactions with an income or expense on an account given by id.
CreateIncomeExpense(types, accts, amts, dates) ==
    \E type \in types, a \in accts, amt \in amts, d \in dates :
        LET p == TransactionCreate([NoValues EXCEPT
                    !.type = type, !.account_id = a,
                    !.amount = IF type = "EXPENSE" THEN -amt ELSE amt,
                    !.occurred_at = d])
        IN  /\ validate_references(p)
            /\ Respond("create", a, create_transaction(Session, p, FALSE, FALSE))

\* POST /transactions with an expense of 1 that carries a memo and a payee.
CreateDescribed(accts, memos, payees) ==
    \E a \in accts, memo \in memos, payee \in payees :
        LET p == TransactionCreate([NoValues EXCEPT
                    !.type = "EXPENSE", !.account_id = a, !.amount = -1,
                    !.occurred_at = Jan10, !.memo = memo, !.payee_id = payee])
        IN  /\ validate_references(p)
            /\ Respond("create", a, create_transaction(Session, p, FALSE, FALSE))

\* POST /transactions with a transfer, the accounts given by id or by name.
CreateTransfer(bys, srcs, dsts, amts, dates) ==
    \E by \in bys, a \in srcs, b \in dsts, amt \in amts, d \in dates :
        LET v == IF by = "id"
                 THEN [NoValues EXCEPT !.type = "TRANSFER", !.account_id = a,
                         !.counter_account_id = b, !.amount = amt, !.occurred_at = d]
                 ELSE [NoValues EXCEPT !.type = "TRANSFER",
                         !.account_name = accounts[a].name,
                         !.counter_account_name = accounts[b].name,
                         !.amount = amt, !.occurred_at = d]
            p == TransactionCreate(v)
        IN  /\ a # b
            /\ validate_references(p)
            /\ Respond("create_transfer", by, create_transaction(Session, p, FALSE, FALSE))

\* The id lists a bulk request of the model carries: one or two stored rows.
IdSets == {ids \in SUBSET DOMAIN txns : Cardinality(ids) \in {1, 2}}

\* PATCH /transactions/{id}
UpdateTransaction(menu) ==
    \E i \in DOMAIN txns, c \in menu :
        Respond("update", {i}, update_transaction(Session, i, c))

\* POST /transactions/bulk-update
BulkUpdate(menu) ==
    \E ids \in IdSets, c \in menu :
        Respond("bulk_update", ids, bulk_update_transactions(Session, ids, c))

\* POST /transactions/bulk-move-account
BulkMove(targets) ==
    \E ids \in IdSets, a \in targets :
        Respond("bulk_move", ids, bulk_move_transactions_account(Session, ids, a))

\* DELETE /transactions/{id}
DeleteTransaction ==
    \E i \in DOMAIN txns : Respond("delete", {i}, delete_transaction(Session, i))

\* POST /transactions/bulk-delete
BulkDelete ==
    \E ids \in IdSets :
        Respond("bulk_delete", ids, bulk_delete_transactions(Session, ids))

\* POST /credit-card-statements/{id}/settle
Settle(entries) ==
    \E k \in 1..MaxStmtId, entry \in entries :
        Respond("settle", k, settle_credit_card_statement(Session, k, entry))

\* PATCH /accounts/{id}
UpdateAccount(accts, menu) ==
    \E a \in accts, u \in menu :
        Respond("update_account", a, update_account(Session, a, u))

\* The date ranges and occurrence dates the recurring requests carry.
Jan1 == <<2024, 1, 1>>
Jan31 == <<2024, 1, 31>>
Feb10 == <<2024, 2, 10>>
Feb29 == <<2024, 2, 29>>

\* POST /recurring-rules/{id}/generate
Generate(ids, ends) ==
    \E rule_id \in ids, end \in ends :
        LET Answer(r) ==
                RespondCommitted("generate", <<rule_id, Jan1, end>>, r,
                                 r.ret, DOMAIN r.txns \ DOMAIN txns, 0)
        IN  Answer(generate_recurring_transactions(Session, rule_id, Jan1, end))

\* POST /recurring-rules/{id}/confirm
Confirm(ids, dates, amts) ==
    \E rule_id \in ids, d \in dates, amt \in amts :
        Respond("confirm", <<rule_id, d>>,
                confirm_variable_recurring_occurrence(Session, rule_id, d, amt))

\* POST /recurring-rules/{id}/skip
Skip(ids, dates) ==
    \E rule_id \in ids, d \in dates :
        Respond("skip", <<rule_id, d>>, skip_recurring_occurrence(Session, rule_id, d))

\* DELETE /recurring-rules/{id}/skip
Unskip(ids, dates) ==
    \E rule_id \in ids, d \in dates :
        Respond("unskip", <<rule_id, d>>, unskip_recurring_occurrence(Session, rule_id, d))

\* Entries of the import batches: an expense of the first deposit, an
\* income of the second deposit hinted as the incoming side of a transfer, a
\* check-card expense from the importer.
CsvExpense ==
    [NoValues EXCEPT !.type = "EXPENSE", !.account_id = 1, !.amount = -1,
                     !.occurred_at = Jan10, !.external_id = <<"csv", 1, NoDate>>]
CsvIncomeIn ==
    [NoValues EXCEPT !.type = "INCOME", !.account_id = 2, !.amount = 1,
                     !.transfer_flow = "IN", !.occurred_at = Jan10,
                     !.external_id = <<"csv", 2, NoDate>>]
ImportedCardExpense ==
    [NoValues EXCEPT !.type = "EXPENSE", !.account_id = 3, !.amount = -1,
                     !.occurred_at = Jan10,
                     !.external_id = <<"banksalad", 3, NoDate>>]

\* A second income of the second deposit hinted as the incoming side.
CsvIncomeTwo ==
    [NoValues EXCEPT !.type = "INCOME", !.account_id = 2, !.amount = 2,
                     !.transfer_flow = "IN", !.occurred_at = Jan10,
                     !.external_id = <<"csv", 4, NoDate>>]

\* The two sides of one transfer between the deposits, as two entries.
CsvTransferOut ==
    [NoValues EXCEPT !.type = "TRANSFER", !.account_id = 1, !.amount = -1,
                     !.transfer_flow = "OUT", !.occurred_at = Jan10,
                     !.external_id = <<"csv", 5, NoDate>>]
CsvTransferIn ==
    [NoValues EXCEPT !.type = "TRANSFER", !.account_id = 2, !.amount = 1,
                     !.transfer_flow = "IN", !.occurred_at = Jan10,
                     !.external_id = <<"csv", 6, NoDate>>]

\* POST /transactions/bulk
Bulk(batches, overrides) ==
    \E batch \in batches, override \in overrides :
        LET items == [k \in 1..Len(batch) |-> TransactionCreate(batch[k])]
            Answer(r) ==
                RespondCommitted("bulk", [batch |-> batch, override |-> override], r,
                                 r.ret.rows, Rows(r.ret.created),
                                 r.ret.db_transfer_matches)
        IN  /\ \A k \in 1..Len(items) : validate_references(items[k])
            /\ Answer(bulk_upsert_transactions(Session, items, override))

\* POST /transactions with a transfer between two accounts given by id that
\* carries an external id.
CreateTransferKeyed(srcs, dsts, amts, exts) ==
    \E a \in srcs, b \in dsts, amt \in amts, ext \in exts :
        LET p == TransactionCreate([NoValues EXCEPT
                    !.type = "TRANSFER", !.account_id = a, !.counter_account_id = b,
                    !.amount = amt, !.occurred_at = Jan10, !.external_id = ext])
        IN  /\ a # b
            /\ validate_references(p)
            /\ Respond("create_transfer", ext, create_transaction(Session, p, FALSE, FALSE))

\* POST /accounts: a new account named 5; a card is linked to the first
\* deposit, a credit card bills on the 15th and is paid on the 25th.
CreateAccount(types, balances) ==
    \E type \in types, balance \in balances :
        Respond("create_account", type,
                create_account(Session, 5, type,
                               IF type \in CardTypes THEN 1 ELSE Null, balance,
                               IF type = "CREDIT_CARD" THEN <<15, 25>> ELSE <<>>))

\* TransactionBalanceService.apply_balance / revert_single_transfer_effect
\* called on the ledger, as the handlers and importers call them.
ApplyBalance(froms, tos, amts) ==
    \E f \in froms, t \in tos, amt \in amts :
        Respond("apply_balance", <<f, t, amt>>, apply_balance(Session, f, t, amt))

RevertBalance(froms, tos, amts) ==
    \E f \in froms, t \in tos, amt \in amts :
        Respond("revert_balance", <<f, t, amt>>,
                revert_single_transfer_effect(Session, f, t, amt))

\* The amount changes a request of the model may carry.
AmountChanges(amts) ==
    {[NoChanges EXCEPT !.set_amount = TRUE, !.amount = amt] : amt \in amts}

\* -------- balance movements between any two of the accounts, account 5
\* being an id no account has
MovementEnds == {Null, 1, 2, 3, 5}

NextBalance ==
    \/ ApplyBalance(MovementEnds, MovementEnds, {1, MaxAmount})
    \/ RevertBalance(MovementEnds, MovementEnds, {1, MaxAmount})

SpecBalance == Init /\ [][NextBalance]_vars

\* -------- transfers between the deposits and towards the credit card
NextTransfer ==
    \/ CreateTransfer({"id", "name"}, {1}, {2, 4}, {1}, {Jan10})
    \/ UpdateTransaction(AmountChanges({MaxAmount}))
    \/ BulkUpdate(AmountChanges({MaxAmount}))
    \/ DeleteTransaction
    \/ BulkDelete

SpecTransfer == Init /\ [][NextTransfer]_vars

\* -------- check-card usage mirrored onto the linked deposit
RelinkToSecondDeposit == [NoAccountUpdate EXCEPT !.set_linked = TRUE, !.linked_account_id = 2]

NextCard ==
    \/ CreateIncomeExpense({"EXPENSE"}, {3}, {1}, {Jan10})
    \/ UpdateTransaction(AmountChanges({-MaxAmount, MaxAmount}))
    \/ DeleteTransaction
    \/ BulkDelete
    \/ UpdateAccount({3}, {RelinkToSecondDeposit})

SpecCard == Init /\ [][NextCard]_vars

\* -------- check-card rows and their mirrors, field by field
DescriptionChanges ==
    {[NoChanges EXCEPT !.set_memo = TRUE, !.memo = 2],
     [NoChanges EXCEPT !.set_payee = TRUE, !.payee_id = 2],
     [NoChanges EXCEPT !.set_occurred_at = TRUE, !.occurred_at = Feb20]}

NextMirror ==
    \/ CreateDescribed({3}, {1}, {1})
    \/ CreateTransfer({"id"}, {3}, {2}, {1}, {Jan10})
    \/ UpdateTransaction(DescriptionChanges \cup AmountChanges({-MaxAmount}))
    \/ DeleteTransaction

SpecMirror == Init /\ [][NextMirror]_vars

\* -------- check-card rows moved onto another account
AccountChanges(accts) ==
    {[NoChanges EXCEPT !.set_from = TRUE, !.from_account_id = a] : a \in accts}

NextMove ==
    \/ CreateIncomeExpense({"EXPENSE"}, {3}, {1}, {Jan10})
    \/ UpdateTransaction(AccountChanges({2, 3}))
    \/ BulkMove({2, 3})
    \/ DeleteTransaction

SpecMove == Init /\ [][NextMove]_vars

\* ------------------------------------------- pairing of one batch bucket
\* The transfer candidates of a bucket: the account by id or by name, a
\* counter account or none, either sign, amounts within and beyond the
\* tolerance of each other.
CandidateAccounts ==
    {[id |-> 1, name |-> Null], [id |-> 2, name |-> Null], [id |-> Null, name |-> 1]}
CandidateCounters ==
    {[id |-> Null, name |-> Null], [id |-> 1, name |-> Null], [id |-> 2, name |-> Null]}
CandidateFlows == {"", "OUT", "IN"}
CandidateAmounts == {-4, -1, 1, 3}
Candidates ==
    {p \in {TransactionCreate([NoValues EXCEPT
                !.type = "TRANSFER", !.account_id = a.id, !.account_name = a.name,
                !.counter_account_id = c.id, !.counter_account_name = c.name,
                !.amount = amt, !.transfer_flow = f, !.occurred_at = Jan10]) :
              a \in CandidateAccounts, c \in CandidateCounters,
              amt \in CandidateAmounts, f \in CandidateFlows} :
       validate_references(p)}
BareCandidates ==
    {p \in Candidates : /\ p.to_account_id = Null /\ p.from_account_id # Null
                        /\ p.amount \in {-1, 1, 3}
                        /\ p.transfer_flow \in {"", "IN"}}
HintedCandidates ==
    {p \in Candidates : /\ p.to_account_id # Null /\ p.amount \in {-1, 1}
                        /\ p.transfer_flow = ""}
PlainCandidates ==
    {p \in BareCandidates : p.amount \in {-1, 1} /\ p.transfer_flow = ""}
Buckets ==
    {<<a, b>> : a \in Candidates, b \in Candidates}
    \cup {<<a, b, c>> : a \in BareCandidates, b \in BareCandidates, c \in BareCandidates}
    \cup {<<a, b, c>> : a \in HintedCandidates, b \in HintedCandidates,
                        c \in HintedCandidates}
    \cup {<<a, b, c, d>> : a \in PlainCandidates, b \in PlainCandidates,
                           c \in PlainCandidates, d \in PlainCandidates}

\* A bucket of candidates as _pair_transfers hands it to the pairing service.
InitPairing ==
    /\ accounts = InitAccounts
    /\ txns = <<>>
    /\ stmts = <<>>
    /\ groups = {}
    /\ rules = InitRules
    /\ skips = {}
    /\ \E b \in Buckets :
          last = [op |-> "bucket", arg |-> b, code |-> 0, ret |-> <<>>, new |-> {},
                  stats |-> 0, errors |-> <<>>]

\* pair_transfers on a bucket of two: _pair_two_entries.
PairTwoEntries ==
    /\ last.op = "bucket"
    /\ Len(last.arg) = 2
    /\ last' = [last EXCEPT !.op = "pair_two", !.code = 200,
                            !.ret = _pair_two_entries(last.arg)]
    /\ UNCHANGED <<accounts, txns, stmts, groups, rules, skips>>

\* pair_transfers_with_tolerance on a bucket.
PairWithTolerance ==
    /\ last.op = "bucket"
    /\ last' = [last EXCEPT !.op = "pair_tolerance", !.code = 200,
                            !.ret = pair_transfers_with_tolerance(last.arg)]
    /\ UNCHANGED <<accounts, txns, stmts, groups, rules, skips>>

\* pair_transfers on a bucket of any size (the exact path).
PairTransfers ==
    /\ last.op = "bucket"
    /\ last' = [last EXCEPT !.op = "pair_transfers", !.code = 200,
                            !.ret = pair_transfers(last.arg)]
    /\ UNCHANGED <<accounts, txns, stmts, groups, rules, skips>>

\* _decide_pair_direction on two candidates, in both orders: the outgoing
\* leg chosen for (a, b) and the one chosen for (b, a).
DecideDirection ==
    /\ last.op = "bucket"
    /\ Len(last.arg) = 2
    /\ last' = [last EXCEPT !.op = "decide", !.code = 200,
                            !.ret = <<_decide_pair_direction(last.arg[1], last.arg[2])[1],
                                      _decide_pair_direction(last.arg[2], last.arg[1])[1]>>]
    /\ UNCHANGED <<accounts, txns, stmts, groups, rules, skips>>

NextPairing ==
    \/ PairTwoEntries
    \/ PairWithTolerance
    \/ PairTransfers
    \/ DecideDirection

SpecPairing == InitPairing /\ [][NextPairing]_vars

\* -------- recurring rules created and edited
\* POST /recurring-rules
CreateRecurringRule(names, types, amounts, counters) ==
    \E name \in names, type \in types, amount \in amounts, cnt \in counters,
       variable \in BOOLEAN :
        Respond("create_rule", name,
                create_recurring_rule(Session,
                    [name |-> name, type |-> type, amount |-> amount,
                     account_id |-> 1, counter_account_id |-> cnt,
                     has_category |-> FALSE, is_variable_amount |-> variable]))

\* PATCH /recurring-rules/{rule_id}
UpdateRecurringRule(ids, amounts, counters) ==
    \E rule_id \in ids, amount \in amounts, cnt \in counters,
       variable \in {Unset(FALSE), None(FALSE), Value(FALSE), Value(TRUE)} :
        Respond("update_rule", rule_id,
                update_recurring_rule(Session, rule_id,
                    [amount |-> amount, is_variable_amount |-> variable,
                     counter_account_id |-> cnt]))

NextRules ==
    \/ CreateRecurringRule({1, 4}, {"EXPENSE", "INCOME", "TRANSFER"},
                           {None(0), Value(0), Value(2)}, {Null, 2})
    \/ UpdateRecurringRule({1, 2, 3, 4, 5},
                           {Unset(0), None(0), Value(0), Value(2)},
                           {Unset(0), None(0), Value(2)})

SpecRules == Init /\ [][NextRules]_vars

\* -------- occurrences of a variable rule confirmed in bulk
Dec31 == <<2023, 12, 31>>
Mar31 == <<2024, 3, 31>>

\* The lists of one or two dates out of a set.
ItemLists(dates) == UNION {[1..n -> dates] : n \in 1..2}

\* The item lists of the requests: a date off the schedule (Jan10), before
\* the rule's start (Dec31) or in the future (Mar31) fails, the month ends
\* up to today are valid.
ConfirmItems ==
    ItemLists({Jan10, Jan31, Feb29, Mar31})
    \cup {<<Jan31, Jan10, Feb29>>, <<Jan31, Mar31, Feb29>>, <<Jan10, Jan31, Mar31>>,
          <<Dec31, Jan31>>}

\* POST /recurring-rules/{rule_id}/confirm-bulk
ConfirmBulk(ids, lists, amts) ==
    \E rule_id \in ids, items \in lists, amt \in amts :
        LET Answer(r) ==
                IF r.s.err # 0 THEN Respond("confirm_bulk", <<rule_id, items>>, r.s)
                ELSE /\ WithinBounds(r.s)
                     /\ last' = [op |-> "confirm_bulk", arg |-> <<rule_id, items>>,
                                 code |-> 200, ret |-> r.confirmed,
                                 new |-> DOMAIN r.s.txns \ DOMAIN txns, stats |-> 0,
                                 errors |-> r.errors]
                     /\ Store(r.s)
        IN  Answer(confirm_variable_recurring_bulk(Session, rule_id, items, amt))

NextConfirm ==
    \/ ConfirmBulk({1, 2}, ConfirmItems, {1})
    \/ Confirm({2}, {Jan31}, {1})
    \/ DeleteTransaction

SpecConfirm == Init /\ [][NextConfirm]_vars

\* -------- the schedule of a monthly rule over a window
\* The monthly rules and windows of the requests: days of the month up to
\* 31, validity open or closed at either end, windows across short months,
\* a leap February and a year's end.
MonthlyRules ==
    {[NoRule EXCEPT !.day_of_month = d, !.start_date = s, !.end_date = e] :
        d \in {1, 15, 29, 30, 31},
        s \in {NoDate, <<2024, 1, 1>>, <<2025, 2, 15>>},
        e \in {NoDate, <<2025, 2, 28>>, <<2025, 3, 30>>}}
WindowStarts == {<<2023, 12, 15>>, <<2024, 1, 31>>, <<2025, 1, 1>>, <<2025, 2, 1>>}
WindowEnds == {<<2024, 2, 29>>, <<2024, 3, 1>>, <<2025, 1, 30>>, <<2025, 3, 31>>}

\* A rule and the window a preview or generate request asks for.
InitOccurrences ==
    /\ accounts = InitAccounts
    /\ txns = <<>>
    /\ stmts = <<>>
    /\ groups = {}
    /\ rules = InitRules
    /\ skips = {}
    /\ \E rule \in MonthlyRules, start \in WindowStarts, end \in WindowEnds :
          last = [op |-> "window", arg |-> [rule |-> rule, start |-> start, end |-> end],
                  code |-> 0, ret |-> <<>>, new |-> {}, stats |-> 0, errors |-> <<>>]

\* _iter_occurrences over the window, as a list.
IterOccurrences ==
    /\ last.op = "window"
    /\ last' = [last EXCEPT
                  !.op = "iter_occurrences", !.code = 200,
                  !.ret = _iter_occurrences(last.arg.rule, last.arg.start, last.arg.end)]
    /\ UNCHANGED <<accounts, txns, stmts, groups, rules, skips>>

NextOccurrences ==
    \/ IterOccurrences

SpecOccurrences == InitOccurrences /\ [][NextOccurrences]_vars

\* -------- the billing window of a card charge
\* Cutoff and payment days, and the dates of the charges: month starts and
\* ends, a leap day, a year's end.
CutoffDays == {1, 15, 20, 28, 30, 31}
PaymentDays == {1, 5, 25, 31}
ChargeDates ==
    {D \in {<<y, m, d>> : y \in {2023, 2024, 2025}, m \in {1, 2, 11, 12},
                          d \in {1, 15, 16, 21, 28, 29, 30, 31}} :
       D[3] <= DaysInMonth(D[1], D[2])}

\* A card's schedule and the date of a charge on it.
InitWindow ==
    /\ accounts = InitAccounts
    /\ txns = <<>>
    /\ stmts = <<>>
    /\ groups = {}
    /\ rules = InitRules
    /\ skips = {}
    /\ \E c \in CutoffDays, p \in PaymentDays, D \in ChargeDates :
          last = [op |-> "charge",
                  arg |-> [billing_cutoff_day |-> c, payment_day |-> p,
                           occurred_at |-> D],
                  code |-> 0, ret |-> <<>>, new |-> {}, stats |-> 0,
                  errors |-> <<>>]

\* _compute_credit_card_statement_window for the charge.
ComputeWindow ==
    /\ last.op = "charge"
    /\ last' = [last EXCEPT
                  !.op = "window_of_charge", !.code = 200,
                  !.ret = _compute_credit_card_statement_window(
                             [InitAccounts[4] EXCEPT
                                !.billing_cutoff_day = last.arg.billing_cutoff_day,
                                !.payment_day = last.arg.payment_day],
                             last.arg.occurred_at)]
    /\ UNCHANGED <<accounts, txns, stmts, groups, rules, skips>>

NextWindow ==
    \/ ComputeWindow

SpecWindow == InitWindow /\ [][NextWindow]_vars

\* -------- balances against the stored rows
NextLedger ==
    \/ CreateIncomeExpense({"EXPENSE"}, {3, 4}, {1}, {Jan10})
    \/ UpdateTransaction(AmountChanges({-1}))
    \/ DeleteTransaction
    \/ Bulk({<<CsvIncomeIn>>}, {FALSE})
    \/ BulkDelete
    \/ BulkMove({1})
    \/ Settle({TRUE})

SpecLedger == Init /\ [][NextLedger]_vars

\* -------- credit-card charges, their statements and settlement
DateChanges ==
    {[NoChanges EXCEPT !.set_occurred_at = TRUE, !.occurred_at = d] : d \in {Jan10, Feb20}}

NextBilling ==
    \/ CreateIncomeExpense({"EXPENSE"}, {4}, {1}, {Jan10, Feb20})
    \/ UpdateTransaction(DateChanges)
    \/ DeleteTransaction
    \/ Settle(BOOLEAN)

SpecBilling == Init /\ [][NextBilling]_vars

\* -------- recurring rules: generation, confirmation and skips
NextRecurring ==
    \/ Generate({1, 2, 3}, {Jan31, Feb29})
    \/ Confirm({1, 2}, {Jan10, Jan31, Feb29}, {1})
    \/ Skip({1, 2}, {Jan10, Jan31})
    \/ Unskip({1, 2}, {Jan10, Jan31})
    \/ DeleteTransaction

SpecRecurring == Init /\ [][NextRecurring]_vars

\* -------- import of batches, repeated and overriding
NextBulk ==
    \/ Bulk({<<CsvExpense, CsvIncomeIn>>, <<CsvIncomeIn>>, <<ImportedCardExpense>>},
            BOOLEAN)
    \/ UpdateTransaction(AmountChanges({-MaxAmount}))
    \/ DeleteTransaction

SpecBulk == Init /\ [][NextBulk]_vars

\* Imports in several files: the outgoing side first, the incoming sides later.
NextSuppress ==
    \/ Bulk({<<CsvExpense>>, <<CsvIncomeIn, CsvIncomeTwo>>, <<CsvIncomeTwo>>}, {FALSE})
    \/ UpdateTransaction(AmountChanges({-1}))
    \/ DeleteTransaction

SpecSuppress == Init /\ [][NextSuppress]_vars

\* Imports that override what is stored under their external ids: a keyed
\* transfer, an expense and a check-card expense.
NextOverride ==
    \/ CreateTransferKeyed({1}, {2}, {1}, {CsvExpense.external_id})
    \/ Bulk({<<CsvExpense>>, <<ImportedCardExpense>>, <<CsvExpense, ImportedCardExpense>>,
             <<CsvTransferOut, CsvTransferIn>>},
            BOOLEAN)
    \/ DeleteTransaction

SpecOverride == Init /\ [][NextOverride]_vars

\* -------- the ledger as a whole: accounts, rows, imports and settlement
ToCheckCard ==
    [NoAccountUpdate EXCEPT !.set_type = TRUE, !.type = "CHECK_CARD",
                            !.set_linked = TRUE, !.linked_account_id = 1]
SetBalance ==
    [NoAccountUpdate EXCEPT !.set_balance = TRUE, !.current_balance = MaxAmount]

Next ==
    \/ CreateAccount({"CHECK_CARD", "CREDIT_CARD"}, {MaxAmount})
    \/ UpdateAccount({2}, {ToCheckCard})
    \/ UpdateAccount({3}, {SetBalance})
    \/ CreateIncomeExpense({"EXPENSE"}, {3, 4}, {1}, {Jan10})
    \/ CreateTransfer({"id"}, {2}, {3}, {1}, {Jan10})
    \/ UpdateTransaction(AmountChanges({-1}))
    \/ DeleteTransaction
    \/ Bulk({<<ImportedCardExpense>>}, {FALSE})
    \/ Settle({TRUE})
    \/ ApplyBalance({Null}, {4}, {1})
    \/ RevertBalance({Null}, {3}, {1})

Spec == Init /\ [][Next]_vars

\* The rows that share a transfer group.
GroupRows(g) == {i \in DOMAIN txns : txns[i].group_id = g}

\* C1: for every transfer stored as a pair of rows sharing a group id, after
\* creation and after any single or bulk update of either leg, the outgoing
\* leg's amount plus the incoming leg's amount is zero.
C1_PairedLegsCancel ==
    \A g \in groups :
        Cardinality(GroupRows(g)) = 2 => SumAmounts(txns, GroupRows(g)) = 0

\* C9: every transfer group that exists is shared by exactly two
\* transaction rows, after every create, update, delete and bulk delete.
C9_GroupHasTwoRows ==
    \A g \in groups : Cardinality(GroupRows(g)) = 2

\* The rows linked to an occurrence of a rule.
OccurrenceRows(rule_id, d) == FindByExternalId(Session, RuleKey(rule_id, d))

\* C4: a generate call that follows a successful generate call for the same
\* rule and date range succeeds, creates no transaction and returns the same
\* transactions; no two transactions carry the key of the same (rule, date).
C4_GenerateTwiceIsIdempotent ==
    [][/\ (/\ last.op = "generate" /\ last.code = 200
           /\ last'.op = "generate" /\ last'.arg = last.arg)
          => /\ last'.code = 200
             /\ txns' = txns
             /\ last'.new = {}
             /\ last'.ret = last.ret
       /\ \A rule_id \in DOMAIN rules' :
            \A i, j \in DOMAIN txns' :
               (/\ txns'[i].external_id[1] = "rule"
                /\ txns'[i].external_id[2] = rule_id
                /\ txns'[j].external_id = txns'[i].external_id) => i = j]_vars

\* C4 witness: a generate call for the fixed transfer rule has answered with
\* a transaction it did not create, the one an earlier call generated.
C4_Witness ==
    /\ last.op = "generate" /\ last.code = 200
    /\ last.arg = <<3, Jan1, Jan31>>
    /\ last.ret # <<>> /\ last.new = {}
    /\ OccurrenceRows(3, Jan10) # {}

\* C8: for every rule and date, a skip record and a transaction carrying the
\* key of that occurrence never exist at the same time.
C8_SkipExcludesTransaction ==
    \A sk \in skips : OccurrenceRows(sk[1], sk[2]) = {}

\* C3: when a bulk call without override has created every row it returned,
\* the next bulk call with the same batch creates no row and returns the rows
\* the first call created.
C3_SecondBulkReturnsFirstRows ==
    [][(/\ last.op = "bulk" /\ last.code = 200 /\ ~last.arg.override
        /\ last.new # {} /\ last.new = Rows(last.ret)
        /\ last'.op = "bulk" /\ last'.arg = last.arg)
       => /\ last'.code = 200
          /\ last'.new = {}
          /\ Rows(last'.ret) = last.new]_vars

\* C5: a settle call on a statement that is already paid answers with a
\* conflict and leaves accounts, transactions and statements as they were.
C5_SettlePaidConflicts ==
    [][(/\ last'.op = "settle"
        /\ last'.arg \in DOMAIN stmts
        /\ stmts[last'.arg].status = "paid")
       => /\ last'.code = 409
          /\ UNCHANGED <<accounts, txns, stmts, groups>>]_vars

\* C5 witness: a settle call on a paid statement has been refused.
C5_Witness ==
    /\ last.op = "settle" /\ last.code = 409
    /\ last.arg \in DOMAIN stmts
    /\ stmts[last.arg].status = "paid"
    /\ stmts[last.arg].settlement_transaction_id \in DOMAIN txns

\* C6: a paid statement stays paid in every step, and a statement becomes
\* paid only in a successful settle call on it.
C6_PaidIsTerminal ==
    [][/\ \A k \in DOMAIN stmts :
            stmts[k].status = "paid"
               => k \in DOMAIN stmts' /\ stmts'[k].status = "paid"
       /\ \A k \in DOMAIN stmts' :
            (stmts'[k].status = "paid"
               /\ (k \notin DOMAIN stmts \/ stmts[k].status # "paid"))
               => last'.op = "settle" /\ last'.arg = k /\ last'.code = 200]_vars

\* C6 witness: after its settlement a paid statement has received a new
\* charge, through the statement lookup of a create or an update.
C6_Witness ==
    \E k \in DOMAIN stmts :
        /\ stmts[k].status = "paid"
        /\ last.op \in {"create", "update"} /\ last.code = 200
        /\ \E i \in DOMAIN txns :
              /\ txns[i].billing_cycle_id = k
              /\ txns[i].status = "PENDING_PAYMENT"

\* The mirror of a check-card row: the row of a non-card account the two
\* linked pointers tie to it.
ActiveMirrors(i) ==
    {m \in DOMAIN txns :
        /\ txns[i].linked_transaction_id = m
        /\ txns[m].linked_transaction_id = i
        /\ AccountIdOf(txns[i]) \in DOMAIN accounts
        /\ accounts[AccountIdOf(txns[i])].type = "CHECK_CARD"
        /\ AccountIdOf(txns[m]) \in DOMAIN accounts
        /\ accounts[AccountIdOf(txns[m])].type \notin CardTypes}

\* C10: a successful delete or bulk delete of a check-card row with an
\* active mirror (alone or together with the mirror) removes both rows,
\* leaves the card's balance at zero and takes the mirrored amount off the
\* deposit's balance once.
C10_DeleteRevertsMirrorOnce ==
    [][\A i \in DOMAIN txns : \A m \in ActiveMirrors(i) :
          (/\ last'.op \in {"delete", "bulk_delete"} /\ last'.code = 200
           /\ i \in last'.arg /\ last'.arg \subseteq {i, m})
          => /\ i \notin DOMAIN txns' /\ m \notin DOMAIN txns'
             /\ accounts'[AccountIdOf(txns[i])].balance = 0
             /\ accounts'[AccountIdOf(txns[m])].balance
                  = accounts[AccountIdOf(txns[m])].balance - txns[m].amount]_vars

\* C2: every account of a card kind (credit card or check card) has a
\* stored balance of zero.
C2_CardBalanceIsZero ==
    \A a \in DOMAIN accounts :
        accounts[a].type \in CardTypes => accounts[a].balance = 0

\* C2 witness: the second deposit paid a transfer to the check card and was
\* then turned into a check card itself.
C2_Witness ==
    /\ accounts[2].type = "CHECK_CARD"
    /\ accounts[2].balance = 0
    /\ \E i \in DOMAIN txns :
          /\ txns[i].type = "TRANSFER" /\ txns[i].group_id # Null
          /\ txns[i].from_account_id = 2 /\ txns[i].to_account_id = 3
          /\ ~txns[i].is_balance_neutral

\* C7: for every transaction A whose linked-transaction pointer is B, the
\* transaction B exists and B's linked-transaction pointer is A.
C7_LinkedPointersAreMutual ==
    \A i \in DOMAIN txns :
        txns[i].linked_transaction_id # Null
           => /\ txns[i].linked_transaction_id \in DOMAIN txns
              /\ txns[txns[i].linked_transaction_id].linked_transaction_id = i

\* C7 witness: a settlement and its card entry point to each other.
C7_Witness ==
    \E i, j \in DOMAIN txns :
        /\ i # j
        /\ txns[i].type = "SETTLEMENT" /\ txns[j].type = "SETTLEMENT"
        /\ txns[i].linked_transaction_id = j
        /\ txns[j].linked_transaction_id = i

\* The pending-payment rows of a billing cycle.
PendingRows(k) ==
    {i \in DOMAIN txns :
        txns[i].billing_cycle_id = k /\ txns[i].status = "PENDING_PAYMENT"}

\* C11: a successful settlement of a statement whose outstanding amount is
\* X > 0 takes exactly X off the balance of the linked deposit account, turns
\* every pending-payment row of the cycle to cleared, and leaves the
\* statement paid with a total of zero.
C11_SettleMovesOutstanding ==
    [][(last'.op = "settle" /\ last'.code = 200)
       => LET k == last'.arg
              X == -SumAmounts(txns, PendingRows(k))
              deposit == accounts[stmts[k].account_id].linked_account_id
          IN  /\ X > 0
              /\ accounts'[deposit].balance = accounts[deposit].balance - X
              /\ \A i \in PendingRows(k) :
                    i \in DOMAIN txns' /\ txns'[i].status = "CLEARED"
              /\ \A i \in DOMAIN txns' :
                    txns'[i].billing_cycle_id = k
                       => txns'[i].status # "PENDING_PAYMENT"
              /\ stmts'[k].status = "paid"
              /\ stmts'[k].total_amount = 0]_vars

\* C11 witness: a statement with two charges has been settled; the charges
\* are cleared and the deposit has paid their sum.
C11_Witness ==
    /\ last.op = "settle" /\ last.code = 200
    /\ stmts[last.arg].status = "paid" /\ stmts[last.arg].total_amount = 0
    /\ accounts[1].balance = -2
    /\ Cardinality({i \in DOMAIN txns :
                      /\ txns[i].billing_cycle_id = last.arg
                      /\ txns[i].type = "EXPENSE"
                      /\ txns[i].status = "CLEARED"}) = 2

\* The rows whose linked pointer names row i, in a table of rows.
MirrorsOf(t, i) == {m \in DOMAIN t : t[m].linked_transaction_id = i}

\* C12: after a create or an update (single or bulk) has left a row with a
\* negative amount on a check-card account that has a linked deposit,
\* exactly one mirror row names it: a transfer on the linked deposit with the
\* row's amount, date, memo and payee, which the row names in turn; and the
\* deposit's balance has moved by that amount, less what the row's earlier
\* mirror on that deposit had contributed.
C12_CardRowHasOneMirror ==
    [][\A i \in DOMAIN txns' :
         LET row == txns'[i]
             card == AccountIdOf(row)
             deposit == accounts'[card].linked_account_id
             before == IF i \in DOMAIN txns
                       THEN {m \in MirrorsOf(txns, i) :
                               /\ AccountIdOf(txns[m]) = deposit
                               /\ ~_is_effectively_neutral_txn(txns[m])}
                       ELSE {}
         IN  (/\ last'.code = 200
              /\ \/ last'.op \in {"create", "create_transfer"} /\ i \notin DOMAIN txns
                 \/ last'.op = "update" /\ last'.arg = {i}
                 \/ last'.op = "bulk_update" /\ i \in last'.arg
                    /\ last'.arg \subseteq {i} \cup MirrorsOf(txns, i)
              /\ row.amount < 0
              /\ card \in DOMAIN accounts'
              /\ accounts'[card].type = "CHECK_CARD"
              /\ deposit \in DOMAIN accounts'
              /\ accounts'[deposit].type \notin CardTypes)
             => /\ Cardinality(MirrorsOf(txns', i)) = 1
                /\ \A m \in MirrorsOf(txns', i) :
                      /\ txns'[m].type = "TRANSFER"
                      /\ AccountIdOf(txns'[m]) = deposit
                      /\ CounterAccountIdOf(txns'[m]) = card
                      /\ txns'[m].amount = row.amount
                      /\ txns'[m].occurred_at = row.occurred_at
                      /\ txns'[m].memo = row.memo
                      /\ txns'[m].payee_id = row.payee_id
                      /\ row.linked_transaction_id = m
                /\ accounts'[deposit].balance
                     = accounts[deposit].balance - SumAmounts(txns, before)
                       + row.amount]_vars

\* The entries of a batch that are transfer-like and match a stored row;
\* the batches of the model pair no entries among themselves.
MatchedEntries(batch) ==
    {k \in 1..Len(batch) :
        /\ batch[k].type = "TRANSFER" \/ batch[k].transfer_flow # ""
        /\ DbMatchFound(Session, TransactionCreate(batch[k]))}

\* C13: in a successful bulk call, an entry that is transfer-like, was not
\* paired inside its batch and matches a stored row gets no row of its own and
\* is counted as a cross-batch match; the stored rows it matches stay as
\* they are; and a call whose entries all match leaves every row and every
\* balance as it was.
C13_DbMatchDropsCandidate ==
    [][(last'.op = "bulk" /\ last'.code = 200)
       => LET batch == last'.arg.batch
          IN  /\ last'.stats = Cardinality(MatchedEntries(batch))
              /\ \A k \in MatchedEntries(batch) :
                    /\ \A i \in last'.new :
                          txns'[i].external_id # batch[k].external_id
                    /\ \A i \in DOMAIN txns :
                          (/\ txns[i].occurred_at = batch[k].occurred_at
                           /\ _is_match(TransactionCreate(batch[k]), txns[i]))
                          => i \in DOMAIN txns' /\ txns'[i] = txns[i]
              /\ MatchedEntries(batch) = 1..Len(batch)
                    => txns' = txns /\ accounts' = accounts]_vars


\* No leg of the pair names an account, by id or by name, other than the
\* outgoing leg's own.
NoCounterIdentity(out_entry, in_entry) ==
    LET key == normalize_account_ref(PayloadAccountId(out_entry),
                                     PayloadAccountName(out_entry))
        name == PayloadAccountName(out_entry)
    IN  /\ find_counter_id(in_entry, key) = Null
        /\ find_counter_id(out_entry, key) = Null
        /\ find_counter_name(in_entry, name) = Null
        /\ find_counter_name(out_entry, name) = Null
        /\ PayloadCounterAccountName(out_entry) = Null

\* C14: two candidates paired with each other, neither of which names an
\* account other than the outgoing leg's, are not combined: the pairing
\* returns no pair and both candidates as leftovers.
C14_NoCounterMeansLeftovers ==
    (/\ last.op = "pair_two"
     /\ NoCounterIdentity(_decide_pair_direction(last.arg[1], last.arg[2])[1],
                          _decide_pair_direction(last.arg[1], last.arg[2])[2]))
    => /\ last.ret.pairs = <<>>
       /\ last.ret.leftovers = last.arg

\* C17: tolerance pairing combines two candidates only when their absolute
\* amounts differ by at most 2; a bucket of two candidates of opposite sign
\* gives one pair and no leftover when the difference is at most 2, and no
\* pair and both candidates as leftovers when it is more.
C17_PairsWithinTolerance ==
    last.op = "pair_tolerance" =>
        LET b == last.arg
            r == last.ret
        IN  /\ \A k \in 1..Len(r.pairs) :
                  \E i \in 1..Len(b), j \in 1..Len(b) :
                     /\ i # j
                     /\ Abs(Abs(b[i].amount) - Abs(b[j].amount)) <= 2
                     /\ r.pairs[k].item.amount = -Abs(b[i].amount)
                     /\ r.pairs[k].item.from_account_id = b[i].from_account_id
                     /\ r.pairs[k].item.from_account_name = b[i].from_account_name
            /\ 2 * Len(r.pairs) + Len(r.leftovers) = Len(b)
            /\ (Len(b) = 2 /\ (b[1].amount < 0) # (b[2].amount < 0)) =>
                  IF Abs(Abs(b[1].amount) - Abs(b[2].amount)) <= 2
                  THEN Len(r.pairs) = 1 /\ r.leftovers = <<>>
                  ELSE r.pairs = <<>> /\ Rows(r.leftovers) = {b[1], b[2]}
                       /\ Len(r.leftovers) = 2

C17_Witness ==
    /\ last.op = "pair_tolerance"
    /\ Len(last.arg) = 2
    /\ last.arg[1].amount = -1 /\ last.arg[2].amount = 3
    /\ Len(last.ret.pairs) = 1
    /\ last.ret.pairs[1].item.amount = -1
    /\ last.ret.leftovers = <<>>


\* The stored rules keep the rule of amounts: a rule of fixed amount has a
\* positive amount, a rule of variable amount is no transfer.
RulesKeepAmountRule ==
    \A i \in DOMAIN rules :
        /\ ~rules[i].is_variable_amount => (rules[i].amount # Null /\ rules[i].amount > 0)
        /\ ~(rules[i].is_variable_amount /\ rules[i].type = "TRANSFER")

\* C15: across the requests that create and update recurring rules, every
\* stored rule of fixed amount has a positive amount and no stored rule is
\* both of variable amount and a transfer; a rejected request leaves the
\* stored rules as they were.
C15_RulesKeepAmountRule ==
    [][last'.op \in {"create_rule", "update_rule"} =>
         /\ RulesKeepAmountRule
         /\ RulesKeepAmountRule'
         /\ last'.code >= 400 => UNCHANGED <<rules, accounts, txns, stmts, groups, skips>>]_vars

C15_Witness ==
    /\ last.op = "update_rule"
    /\ last.code = 400
    /\ 4 \in DOMAIN rules
    /\ rules[4].is_variable_amount /\ rules[4].amount = Null
    /\ rules[2].amount = 2 /\ ~rules[2].is_variable_amount


\* An item, a date, that confirmation accepts for the rule: within the
\* rule's validity, not in the future, on the rule's schedule.
ItemIsValid(rule, d) ==
    /\ ~(rule.start_date # NoDate /\ DateLT(d, rule.start_date))
    /\ ~(rule.end_date # NoDate /\ DateLT(rule.end_date, d))
    /\ ~DateLT(Today, d)
    /\ InSeq(d, _iter_occurrences(rule, d, d))

\* The rows that carry the key of the rule's occurrence on d.
RowsOfItem(t, rule_id, d) ==
    {i \in DOMAIN t : t[i].external_id = RuleKey(rule_id, d)}

\* C16: a bulk confirmation treats its items one by one: the failing items
\* are listed, by date and in order, in the errors and leave no
\* transaction; every valid item, before or after a failing one, has its
\* transaction stored and listed among the confirmed; rows stored before
\* the call stay.
C16_BulkConfirmIsolatesItems ==
    [][(last'.op = "confirm_bulk" /\ last'.code = 200) =>
         LET rule_id == last'.arg[1]
             items == last'.arg[2]
             rule == rules[rule_id]
         IN  /\ last'.errors = SelectSeq(items, LAMBDA d : ~ItemIsValid(rule, d))
             /\ Len(last'.ret) = Len(SelectSeq(items, LAMBDA d : ItemIsValid(rule, d)))
             /\ \A k \in 1..Len(items) :
                   IF ItemIsValid(rule, items[k])
                   THEN /\ Cardinality(RowsOfItem(txns', rule_id, items[k])) = 1
                        /\ RowsOfItem(txns', rule_id, items[k]) \subseteq Rows(last'.ret)
                        /\ \A i \in RowsOfItem(txns', rule_id, items[k]) :
                              /\ txns'[i].occurred_at = items[k]
                              /\ txns'[i].amount = 1
                   ELSE RowsOfItem(txns', rule_id, items[k]) = {}
             /\ \A i \in DOMAIN txns : i \in DOMAIN txns' /\ txns'[i] = txns[i]
             /\ \A i \in DOMAIN txns' \ DOMAIN txns :
                   \E k \in 1..Len(items) : txns'[i].external_id = RuleKey(rule_id, items[k])]_vars

C16_Witness ==
    /\ last.op = "confirm_bulk"
    /\ last.code = 200
    /\ last.arg = <<2, <<Jan31, Jan10, Feb29>>>>
    /\ last.errors = <<Jan10>>
    /\ Len(last.ret) = 2
    /\ Cardinality(last.new) = 2
    /\ accounts[2].balance = 2


\* The day d of the month (y, m), or the month's last day when the month
\* is shorter.
DayOrLast(y, m, d) ==
    <<y, m, IF d <= DaysInMonth(y, m) THEN d ELSE DaysInMonth(y, m)>>

\* C18: a monthly rule of day d yields, over a window, exactly the dates
\* "day d or the month's last day" of the months for which that date lies
\* in the window and in the rule's validity, each once and in order; for
\* d = 31 over January to March 2025 these are 2025-01-31, 2025-02-28 and
\* 2025-03-31.
C18_MonthlyDatesAreClamped ==
    last.op = "iter_occurrences" =>
        LET rule == last.arg.rule
            InWindow(x) ==
                /\ DateLE(last.arg.start, x) /\ DateLE(x, last.arg.end)
                /\ rule.start_date = NoDate \/ DateLE(rule.start_date, x)
                /\ rule.end_date = NoDate \/ DateLE(x, rule.end_date)
            expected == {x \in {DayOrLast(y, m, rule.day_of_month) :
                                  y \in 2023..2025, m \in 1..12} : InWindow(x)}
        IN  /\ Rows(last.ret) = expected
            /\ \A k \in 1..(Len(last.ret) - 1) : DateLT(last.ret[k], last.ret[k + 1])
            /\ (/\ rule.day_of_month = 31
                /\ last.arg.start = <<2025, 1, 1>> /\ last.arg.end = <<2025, 3, 31>>
                /\ rule.start_date # <<2025, 2, 15>> /\ rule.end_date = NoDate)
               => last.ret = << <<2025, 1, 31>>, <<2025, 2, 28>>, <<2025, 3, 31>> >>

C18_Witness ==
    /\ last.op = "iter_occurrences"
    /\ last.arg.rule.day_of_month = 31
    /\ last.arg.start = <<2025, 1, 1>> /\ last.arg.end = <<2025, 3, 31>>
    /\ last.arg.rule.end_date = NoDate
    /\ last.ret = << <<2025, 1, 31>>, <<2025, 2, 28>>, <<2025, 3, 31>> >>

\* C19: for cutoff day c, payment day p and a charge dated D, the cycle
\* ends on day c (or the month's last day) of D's month when D's day is at
\* most c, of the month after it otherwise; the period starts the day after
\* day c (or the last day) of the month before the end month; the payment
\* is due on day p (or the last day) of the month after the end month.
C19_WindowOfCharge ==
    last.op = "window_of_charge" =>
        LET c == last.arg.billing_cutoff_day
            p == last.arg.payment_day
            D == last.arg.occurred_at
            After(ym) == IF ym[2] = 12 THEN <<ym[1] + 1, 1>> ELSE <<ym[1], ym[2] + 1>>
            Before(ym) == IF ym[2] = 1 THEN <<ym[1] - 1, 12>> ELSE <<ym[1], ym[2] - 1>>
            endMonth == IF D[3] <= c THEN <<D[1], D[2]>> ELSE After(<<D[1], D[2]>>)
            prevCutoff == DayOrLast(Before(endMonth)[1], Before(endMonth)[2], c)
            dueMonth == After(endMonth)
        IN  /\ last.ret.period_end = DayOrLast(endMonth[1], endMonth[2], c)
            /\ last.ret.period_start =
                  IF prevCutoff[3] = DaysInMonth(prevCutoff[1], prevCutoff[2])
                  THEN <<endMonth[1], endMonth[2], 1>>
                  ELSE <<prevCutoff[1], prevCutoff[2], prevCutoff[3] + 1>>
            /\ last.ret.due_date = DayOrLast(dueMonth[1], dueMonth[2], p)

C19_Witness ==
    /\ last.op = "window_of_charge"
    /\ last.arg = [billing_cutoff_day |-> 20, payment_day |-> 5,
                   occurred_at |-> <<2024, 12, 21>>]
    /\ last.ret = [period_start |-> <<2024, 12, 21>>, period_end |-> <<2025, 1, 20>>,
                   due_date |-> <<2025, 2, 5>>]


\* What a stored row adds to the balance of account a: nothing when the row
\* is balance-neutral or excluded from reports; for the incoming leg of a
\* two-row transfer, its amount on the receiving account; otherwise its
\* amount on its own account and, for a single-row transfer matched
\* automatically, the opposite amount on its counter account.
BalanceEffect(t, a) ==
    IF t.is_balance_neutral \/ t.exclude_from_reports THEN 0
    ELSE IF t.type = "TRANSFER" /\ ~t.is_auto_transfer_match /\ t.group_id # Null
            /\ t.amount > 0
    THEN (IF t.to_account_id = a THEN t.amount ELSE 0)
    ELSE IF AccountIdOf(t) = a THEN t.amount
    ELSE IF t.type = "TRANSFER" /\ t.is_auto_transfer_match /\ CounterAccountIdOf(t) = a
    THEN -t.amount
    ELSE 0

RECURSIVE SumOfEffects(_, _, _)
SumOfEffects(t, ids, a) ==
    IF ids = {} THEN 0
    ELSE LET i == CHOOSE x \in ids : TRUE
         IN  BalanceEffect(t[i], a) + SumOfEffects(t, ids \ {i}, a)

\* C20: the stored balance of every account that is no card equals its
\* initial balance plus the balance effects of the rows stored now.
C20_BalanceIsSumOfEffects ==
    \A a \in DOMAIN accounts :
        accounts[a].type \notin CardTypes =>
            accounts[a].balance
              = (IF a \in DOMAIN InitAccounts THEN InitAccounts[a].balance ELSE 0)
                + SumOfEffects(txns, DOMAIN txns, a)


\* C21: a paid statement has a total of zero and no row in pending-payment
\* status refers to it, whatever charges are created, updated or deleted
\* on the card after the settlement.
C21_PaidStatementStaysSettled ==
    \A k \in DOMAIN stmts :
        stmts[k].status = "paid" =>
            /\ stmts[k].total_amount = 0
            /\ \A i \in DOMAIN txns :
                  ~(txns[i].billing_cycle_id = k /\ txns[i].status = "PENDING_PAYMENT")

\* C22: the direction decision names the same candidate as the outgoing leg
\* whether it is given (a, b) or (b, a).
C22_DirectionIsSymmetric ==
    last.op = "decide" => last.ret[1] = last.ret[2]

\* The permutations of a list.
Orderings(seq) ==
    {[k \in 1..Len(seq) |-> seq[f[k]]] :
        f \in {g \in [1..Len(seq) -> 1..Len(seq)] :
                  \A i, j \in 1..Len(seq) : i # j => g[i] # g[j]}}

\* The set of the elements of a list.
Elements(seq) == {seq[k] : k \in 1..Len(seq)}

\* C23: tolerance pairing returns the same set of pairs and the same set of
\* leftovers for every permutation of the bucket.
C23_ToleranceIgnoresOrder ==
    last.op = "pair_tolerance" =>
        \A q \in Orderings(last.arg) :
            LET r == pair_transfers_with_tolerance(q)
            IN  /\ Elements(r.pairs) = Elements(last.ret.pairs)
                /\ Elements(r.leftovers) = Elements(last.ret.leftovers)

\* The two candidates share the sign of their amounts and carry no opposing
\* direction hints.
SameSignUnhinted(a, b) ==
    /\ (a.amount < 0) = (b.amount < 0)
    /\ ~(a.transfer_flow = "OUT" /\ b.transfer_flow = "IN")
    /\ ~(a.transfer_flow = "IN" /\ b.transfer_flow = "OUT")

\* C24: tolerance pairing leaves two candidates of the same sign without
\* opposing direction hints as leftovers: a bucket of two such candidates
\* yields no pair.
C24_SameSignStaysLeftover ==
    (/\ last.op = "pair_tolerance"
     /\ Len(last.arg) = 2
     /\ SameSignUnhinted(last.arg[1], last.arg[2]))
        => /\ last.ret.pairs = <<>>
           /\ Elements(last.ret.leftovers) = Elements(last.arg)

\* How often a value occurs in a list.
Occurrences(seq, e) == Cardinality({k \in 1..Len(seq) : seq[k] = e})

\* The result r accounts for every candidate of bucket b once: a choice of
\* two legs per pair, no candidate chosen twice, and the remaining
\* candidates are the leftovers.
EveryCandidateOnce(b, r) ==
    /\ 2 * Len(r.pairs) + Len(r.leftovers) = Len(b)
    /\ \E legs \in [1..Len(r.pairs) -> (1..Len(b)) \X (1..Len(b))] :
          LET taken == {legs[k][1] : k \in 1..Len(r.pairs)}
                       \cup {legs[k][2] : k \in 1..Len(r.pairs)}
              rest == SelectSeq([k \in 1..Len(b) |-> <<k, b[k]>>],
                                LAMBDA x : x[1] \notin taken)
          IN  /\ Cardinality(taken) = 2 * Len(r.pairs)
              /\ \A k \in 1..Len(r.pairs) :
                    LET built == _build_pair(b[legs[k][1]], b[legs[k][2]])
                    IN  built.ok /\ r.pairs[k].item = built.combined
              /\ \A e \in Elements(b) \cup Elements(r.leftovers) :
                    Occurrences(r.leftovers, e)
                        = Cardinality({k \in 1..Len(rest) : rest[k][2] = e})

\* C30: pairing neither loses nor duplicates candidates, on the exact path
\* and on the tolerance path: every candidate is a leg of exactly one pair
\* or one of the leftovers, so twice the pairs plus the leftovers is the
\* number of inputs.
C30_PairingKeepsEveryCandidate ==
    last.op \in {"pair_transfers", "pair_tolerance"}
        => EveryCandidateOnce(last.arg, last.ret)

\* reached: the exact path on a bucket of three made one pair and left one
\* candidate over.
C30_Witness ==
    /\ last.op = "pair_transfers"
    /\ Len(last.arg) = 3
    /\ Len(last.ret.pairs) = 1
    /\ Len(last.ret.leftovers) = 1

\* Entry k of the batch is transfer-like, matches the stored row i, is not
\* stored under its own external id, and the call made no row for it.
SuppressedBy(batch, k, i) ==
    /\ batch[k].type = "TRANSFER" \/ batch[k].transfer_flow # ""
    /\ txns[i].type \in {"TRANSFER", "INCOME", "EXPENSE"}
    /\ txns[i].occurred_at = batch[k].occurred_at
    /\ _is_match(TransactionCreate(batch[k]), txns[i])
    /\ \A j \in DOMAIN txns : txns[j].external_id # batch[k].external_id
    /\ \A j \in last'.new : txns'[j].external_id # batch[k].external_id

\* C25: within one bulk call a stored row suppresses at most one entry: of
\* two different entries that match the same stored row, at most one is
\* dropped as a cross-batch match.
C25_RowSuppressesOneCandidate ==
    [][(last'.op = "bulk" /\ last'.code = 200)
       => LET batch == last'.arg.batch
          IN  \A i \in DOMAIN txns :
                 \A k1, k2 \in 1..Len(batch) :
                    (k1 # k2 /\ SuppressedBy(batch, k1, i))
                        => ~SuppressedBy(batch, k2, i)]_vars

\* The stored rows an overriding batch replaces: those carrying an external
\* id of the batch and the rows of their transfer groups.
OverriddenRows(batch) ==
    LET keyed == {i \in DOMAIN txns :
                    /\ txns[i].external_id # NoExt
                    /\ \E k \in 1..Len(batch) : batch[k].external_id = txns[i].external_id}
    IN  keyed \cup {j \in DOMAIN txns :
                      \E i \in keyed : /\ txns[i].group_id # Null
                                       /\ txns[j].group_id = txns[i].group_id}

\* C26: a successful overriding bulk call deletes every stored row that
\* shares an external id with an entry, together with its paired sibling
\* (its id is free afterwards or belongs to a row the call created, mirror
\* rows included), and takes the balance effect of each deleted row back exactly once: the
\* balance of every account that is no card changes by the effects of the
\* rows stored after the call less the effects of the rows stored before.
C26_OverrideDeletesAndReverts ==
    [][(last'.op = "bulk" /\ last'.code = 200 /\ last'.arg.override)
       => /\ \A i \in OverriddenRows(last'.arg.batch) :
                \/ i \notin DOMAIN txns'
                \/ i \in last'.new
                \/ txns'[i].linked_transaction_id \in last'.new
          /\ \A a \in DOMAIN accounts :
                accounts[a].type \notin CardTypes =>
                    accounts'[a].balance - accounts[a].balance
                      = SumOfEffects(txns', DOMAIN txns', a)
                        - SumOfEffects(txns, DOMAIN txns, a)]_vars

\* C27: a generate or confirm call never moves the last-generated watermark
\* of a rule to an earlier date: a watermark that is set stays set and is
\* at or after its previous value.
C27_WatermarkNeverMovesBack ==
    [][last'.op \in {"generate", "confirm"}
       => \A k \in DOMAIN rules :
             (k \in DOMAIN rules' /\ rules[k].last_generated_at # NoDate)
                => /\ rules'[k].last_generated_at # NoDate
                   /\ DateLE(rules[k].last_generated_at,
                             rules'[k].last_generated_at)]_vars

\* Row m is a mirror: a transfer out of an account that is no card, linked
\* to another row.
IsMirror(m) ==
    /\ txns[m].type = "TRANSFER"
    /\ txns[m].linked_transaction_id # Null
    /\ AccountIdOf(txns[m]) \in DOMAIN accounts
    /\ accounts[AccountIdOf(txns[m])].type \notin CardTypes

\* The origin of mirror m is a stored row of negative amount on a check
\* card linked to the mirror's account.
MirrorHasOrigin(m) ==
    LET i == txns[m].linked_transaction_id
    IN  /\ i \in DOMAIN txns
        /\ txns[i].amount < 0
        /\ AccountIdOf(txns[i]) \in DOMAIN accounts
        /\ accounts[AccountIdOf(txns[i])].type = "CHECK_CARD"
        /\ accounts[AccountIdOf(txns[i])].linked_account_id = AccountIdOf(txns[m])

\* C28: a mirror is stored on a deposit only while its origin is a row of
\* negative amount on a check card linked to that deposit, also after the
\* origin was updated or bulk-moved onto another account; and the balance
\* of every account that is no card holds the effects of the stored rows.
C28_MirrorOnlyWithOrigin ==
    /\ \A m \in DOMAIN txns : IsMirror(m) => MirrorHasOrigin(m)
    /\ \A a \in DOMAIN accounts :
          accounts[a].type \notin CardTypes =>
              accounts[a].balance
                = InitAccounts[a].balance
                  + SumOfEffects(txns, {i \in DOMAIN txns :
                                          IsMirror(i) => MirrorHasOrigin(i)}, a)

\* C29: whenever a balance movement has been applied, reverting the same
\* movement (same from-account, to-account and magnitude) on the resulting
\* ledger gives every account the stored balance it had before the apply.
C29_RevertRestoresBalances ==
    [][last'.op = "apply_balance" =>
         \A a \in DOMAIN accounts :
             revert_single_transfer_effect(Session', last'.arg[1], last'.arg[2],
                                           last'.arg[3]).accounts[a].balance
               = accounts[a].balance]_vars

\* A movement between the two deposits has been applied and both balances
\* have moved.
C29_Witness ==
    /\ last.op = "apply_balance"
    /\ last.arg = <<1, 2, MaxAmount>>
    /\ accounts[1].balance = -MaxAmount
    /\ accounts[2].balance = MaxAmount


====
